---- MODULE Spec2Model ----
(***************************************************************************)
(* Calendar normalization layer of Analog: the Google and Microsoft event  *)
(* codecs (parse + serialize), the attendee normalizer, the                *)
(* MicrosoftCalendarProvider operations that call them, the schemas that   *)
(* validate create / update inputs and the persisted tables.               *)
(*                                                                         *)
(* Conventions                                                             *)
(*   - an optional value (T | undefined | null) is a set with at most one  *)
(*     element: None is absent, Some(x) is present;                        *)
(*   - a thrown exception is a record of kind "Error";                     *)
(*   - time is counted in hours since the epoch; a time zone is a fixed    *)
(*     offset from UTC (no daylight-saving transitions);                   *)
(*   - an ISO-8601 string is a record naming its format ("date",           *)
(*     "local" = zone-naive date-time, "offset" = date-time with a numeric *)
(*     offset, "utc" = date-time with the Z designator) and the wall-clock *)
(*     reading it spells.                                                  *)
(***************************************************************************)
EXTENDS Integers, Sequences, FiniteSets, TLC

VARIABLES
    \* ---- codec harness: one canonical input or one provider event ----
    cstep,      \* "idle" | "input" | "serialized" | "received" | "parsed"
                \* | "repeated" | "varied" | "reparsed" | "reserialized"
    codec,      \* "google" | "microsoft"
    input,      \* Some(CreateEventInput) while a canonical input is serialized
    payload,    \* Some(provider event): serialized payload or received resource
    parsed,     \* Some(CalendarEvent or Error): result of the parse
    followup,   \* Some(result) of a second call: the same call repeated,
                \* a varied input serialized, or the parsed event serialized
                \* again
    \* ---- attendee normalizer harness ----
    astep,      \* "idle" | "input" | "given" | "parsed"
    acodec,     \* "none" | "google" | "microsoft"
    canonicalIn,    \* Some(canonical attendee list) when one was serialized
    attendeesIn,    \* provider attendee list
    attendeesOut,   \* canonical attendee list
    \* ---- MicrosoftCalendarProvider ----
    pc,         \* "idle" | "request" | "respond" | "done"
    op,         \* the public method that was called
    arg,        \* Some(response input) of updateEvent / responseToEvent
    requests,   \* requests issued by the current call, with their outcome
    reply,      \* events received by the main request of the current call
    result,     \* Some(value or ProviderError) once the call has settled
    server,     \* the event as stored at the provider
    before,     \* server as it was when the current call started
    calls,      \* number of calls started
    \* ---- input validation harness ----
    vstep,      \* "idle" | "given" | "validated"
    schema,     \* "none" | "create" | "update"
    unvalidated,    \* Some(input as the caller sent it)
    validated,  \* Some(output of the schema, or a ZodError)
    \* ---- persisted tables ----
    calendarRows,   \* rows of table calendar
    eventRows,      \* rows of table event
    recurrenceRows, \* rows of table recurrence
    attendeeRows,   \* rows of table attendee
    statement   \* the last statement and what became of it

codecVars == <<cstep, codec, input, payload, parsed, followup>>
attendeeVars == <<astep, acodec, canonicalIn, attendeesIn, attendeesOut>>
providerVars == <<pc, op, arg, requests, reply, result, server, before, calls>>
validationVars == <<vstep, schema, unvalidated, validated>>
tableVars == <<calendarRows, eventRows, recurrenceRows, attendeeRows, statement>>
vars == <<codecVars, attendeeVars, providerVars, validationVars, tableVars>>

(***************************************************************************)
(* Bounds                                                                  *)
(***************************************************************************)
MaxDay == 1
MaxEpoch == 2
MaxAttendees == 3
MaxBatch == 2
MaxCalls == 2
MaxEntryPoints == 2

None == {}
Some(x) == {x}
Get(o) == CHOOSE x \in o : TRUE
Throw(name, message) == [kind |-> "Error", name |-> name, message |-> message]
IsError(r) == r.kind = "Error"
SeqsUpTo(S, n) == UNION {[1..k -> S] : k \in 0..n}

(***************************************************************************)
(* Temporal values and ISO strings                                         *)
(***************************************************************************)
Zones == {"UTC", "Europe/Berlin", "America/New_York"}

UtcOffset(zone) ==
    CASE zone = "Europe/Berlin" -> 1
      [] zone = "America/New_York" -> -5
      [] OTHER -> 0

Days == 0..MaxDay
Epochs == {12 * i : i \in 0..MaxEpoch}

PlainDate(d) == [kind |-> "PlainDate", day |-> d]
Instant(t) == [kind |-> "Instant", epoch |-> t]
ZonedDateTime(t, z) == [kind |-> "ZonedDateTime", epoch |-> t, timeZoneId |-> z]

DateValues ==
    {PlainDate(d) : d \in Days}
        \cup {Instant(t) : t \in Epochs}
        \cup {ZonedDateTime(t, z) : t \in Epochs, z \in Zones}

IsoDate(d) == [fmt |-> "date", day |-> d, wall |-> 24 * d, offset |-> 0]
IsoLocal(w) == [fmt |-> "local", day |-> w \div 24, wall |-> w, offset |-> 0]
IsoOffset(w, o) == [fmt |-> "offset", day |-> w \div 24, wall |-> w, offset |-> o]
IsoUtc(t) == [fmt |-> "utc", day |-> t \div 24, wall |-> t, offset |-> 0]

\* The instant, in hours since the epoch, that a payload date-time denotes
\* when it is read in `zone` (an offset or Z in the string wins over the zone).
InstantOf(iso, zone) ==
    CASE iso.fmt = "utc" -> iso.wall
      [] iso.fmt = "offset" -> iso.wall - iso.offset
      [] OTHER -> iso.wall - UtcOffset(zone)

\* Temporal.PlainDate.prototype.toString
PlainDateToString(value) == IsoDate(value.day)

\* Temporal.Instant.prototype.toString
InstantToString(value) == IsoUtc(value.epoch)

\* Temporal.ZonedDateTime.prototype.toString({timeZoneName: "never", offset: "auto"})
ZonedDateTimeToString(value) ==
    IsoOffset(value.epoch + UtcOffset(value.timeZoneId), UtcOffset(value.timeZoneId))

\* value.toZonedDateTimeISO("UTC").toPlainDateTime().toString()
PlainDateTimeInUtcToString(value) == IsoLocal(value.epoch)

\* Temporal.PlainDate.from: undefined and a Z-designated string are rejected
PlainDateFrom(s) ==
    IF s = None THEN Throw("TypeError", "invalid date")
    ELSE IF Get(s).fmt = "utc" THEN Throw("RangeError", "Z designator not supported")
    ELSE PlainDate(Get(s).day)

\* Temporal.Instant.from: needs an offset or the Z designator
InstantFrom(s) ==
    IF s = None THEN Throw("TypeError", "invalid instant")
    ELSE IF Get(s).fmt \in {"utc", "offset"} THEN Instant(InstantOf(Get(s), "UTC"))
    ELSE Throw("RangeError", "instant without offset")

\* Temporal.Instant.prototype.toZonedDateTimeISO
ToZonedDateTimeISO(instant, timeZone) ==
    IF timeZone \in Zones THEN ZonedDateTime(instant.epoch, timeZone)
    ELSE Throw("RangeError", "invalid time zone")

(***************************************************************************)
(* Google codec: dates                                                     *)
(***************************************************************************)
\* mutant: an instant is emitted with a time-zone field
toGoogleCalendarDate_instantWithZone(value) ==
    IF value.kind = "PlainDate"
    THEN [date |-> Some(PlainDateToString(value)), dateTime |-> None, timeZone |-> None]
    ELSE IF value.kind = "Instant"
    THEN [date |-> None,
          dateTime |-> Some(InstantToString(value)),
          timeZone |-> Some("UTC")]
    ELSE [date |-> None,
          dateTime |-> Some(ZonedDateTimeToString(value)),
          timeZone |-> Some(value.timeZoneId)]

\* mutant: a calendar date is sent as the date-time of its midnight in UTC
toGoogleCalendarDate_dateAsMidnight(value) ==
    IF value.kind = "PlainDate"
    THEN [date |-> None,
          dateTime |-> Some(IsoUtc(24 * value.day)),
          timeZone |-> Some("UTC")]
    ELSE IF value.kind = "Instant"
    THEN [date |-> None, dateTime |-> Some(InstantToString(value)), timeZone |-> None]
    ELSE [date |-> None,
          dateTime |-> Some(ZonedDateTimeToString(value)),
          timeZone |-> Some(value.timeZoneId)]

toGoogleCalendarDate(value) ==
    IF value.kind = "PlainDate"
    THEN [date |-> Some(PlainDateToString(value)), dateTime |-> None, timeZone |-> None]
    ELSE IF value.kind = "Instant"
    THEN [date |-> None, dateTime |-> Some(InstantToString(value)), timeZone |-> None]
    ELSE [date |-> None,
          dateTime |-> Some(ZonedDateTimeToString(value)),
          timeZone |-> Some(value.timeZoneId)]

\* parseDate({ date }) of the Google codec; `d` is event.start / event.end
GoogleParseDate(d) ==
    IF d = None THEN Throw("TypeError", "cannot destructure undefined")
    ELSE PlainDateFrom(Get(d).date)

\* mutant: the timeZone field is not read
GoogleParseDateTime_zoneIgnored(d) ==
    IF d = None THEN Throw("TypeError", "cannot destructure undefined")
    ELSE InstantFrom(Get(d).dateTime)

\* parseDateTime({ dateTime, timeZone }) of the Google codec
GoogleParseDateTime(d) ==
    IF d = None THEN Throw("TypeError", "cannot destructure undefined")
    ELSE LET instant == InstantFrom(Get(d).dateTime)
         IN  IF IsError(instant) THEN instant
             ELSE IF Get(d).timeZone = None THEN instant
             ELSE ToZonedDateTimeISO(instant, Get(Get(d).timeZone))

(***************************************************************************)
(* JSON text of a blocked-time window. A stored string is a record naming  *)
(* what it spells ("empty" = the empty string, "malformed", "null",        *)
(* "number", "object") and, for an object, its members before and after.   *)
(***************************************************************************)
JsonNumber(n) == [type |-> "number", value |-> n]
JsonString == [type |-> "string", value |-> 0]
JsonNull == [type |-> "null", value |-> 0]
JsonText(kind, b, a) == [json |-> kind, before |-> b, after |-> a]

\* JSON.stringify of { before?: number; after?: number }
JsonStringify(blockedTime) ==
    JsonText("object",
             IF blockedTime.before = None THEN None
             ELSE Some(JsonNumber(Get(blockedTime.before))),
             IF blockedTime.after = None THEN None
             ELSE Some(JsonNumber(Get(blockedTime.after))))

\* JSON.parse
JsonParse(text) ==
    IF text.json \in {"empty", "malformed"}
    THEN Throw("SyntaxError", "Unexpected token")
    ELSE [kind |-> "value", type |-> text.json,
          before |-> text.before, after |-> text.after]

\* a non-empty string is truthy
Truthy(string) == string # None /\ Get(string).json # "empty"

\* typeof member === "number" && member > 0
PositiveNumber(member) ==
    member # None /\ Get(member).type = "number" /\ Get(member).value > 0

\* mutant: a member equal to zero is admitted
AdmissibleWindow_zeroAdmitted(blockedTimeData) ==
    LET json == JsonParse(blockedTimeData)
    IN  IF IsError(json) THEN None
        ELSE IF json.type = "null" THEN None
        ELSE LET b == IF json.before # None /\ Get(json.before).type = "number"
                            /\ Get(json.before).value >= 0
                      THEN Some(Get(json.before).value) ELSE None
                 a == IF json.after # None /\ Get(json.after).type = "number"
                            /\ Get(json.after).value >= 0
                      THEN Some(Get(json.after).value) ELSE None
             IN  IF b = None /\ a = None THEN None
                 ELSE Some([before |-> b, after |-> a])

\* the try block of parseBlockedTime: reading a member of null throws a
\* TypeError, which the catch turns into undefined like a SyntaxError
AdmissibleWindow(blockedTimeData) ==
    LET json == JsonParse(blockedTimeData)
    IN  IF IsError(json) THEN None
        ELSE IF json.type = "null" THEN None
        ELSE LET b == IF PositiveNumber(json.before)
                      THEN Some(Get(json.before).value) ELSE None
                 a == IF PositiveNumber(json.after)
                      THEN Some(Get(json.after).value) ELSE None
             IN  IF b = None /\ a = None THEN None
                 ELSE Some([before |-> b, after |-> a])

\* parseBlockedTime(event) of the Google codec
GoogleParseBlockedTime(event) ==
    LET extendedProperties == event.extendedProperties
    IN  IF extendedProperties = None
           \/ (Get(extendedProperties).private = None
               /\ Get(extendedProperties).shared = None)
        THEN None
        ELSE LET private == IF Get(extendedProperties).private = None THEN None
                            ELSE Get(Get(extendedProperties).private).blockedTime
                 shared == IF Get(extendedProperties).shared = None THEN None
                           ELSE Get(Get(extendedProperties).shared).blockedTime
                 blockedTimeData == IF Truthy(private) THEN private ELSE shared
             IN  IF ~Truthy(blockedTimeData) THEN None
                 ELSE AdmissibleWindow(Get(blockedTimeData))

toGoogleCalendarBlockedTime(blockedTime) ==
    [private |-> Some([blockedTime |-> Some(JsonStringify(blockedTime))]),
     shared |-> None]

(***************************************************************************)
(* Google codec: conference                                                *)
(***************************************************************************)
MeetUrl == "https://meet.google.com/abc-defg-hij"
ZoomUrl == "https://zoom.us/j/5551234"
TeamsUrl == "https://teams.microsoft.com/l/meetup-join/19"
OtherUrl == "https://example.com/agenda"
Urls == {MeetUrl, ZoomUrl, TeamsUrl, OtherUrl}

\* detectMeetingLink of @analog/meeting-links: the service whose URL shape
\* the argument matches, if any
detectMeetingLink(url) ==
    IF url = MeetUrl
    THEN Some([id |-> "google-meet", name |-> "Google Meet", joinUrl |-> url])
    ELSE IF url = ZoomUrl
    THEN Some([id |-> "zoom", name |-> "Zoom", joinUrl |-> url])
    ELSE IF url = TeamsUrl
    THEN Some([id |-> "microsoft-teams", name |-> "Microsoft Teams", joinUrl |-> url])
    ELSE None

\* a free text is the sequence of its words; extractUrls keeps, in order,
\* the words that match the HTTP(S) URL pattern
IsUrl(word) == word \in Urls
extractUrls(text) == SelectSeq(text, IsUrl)

checkMeetingLink(url) ==
    LET service == detectMeetingLink(url)
    IN  IF service # None
        THEN Some([id |-> Some(Get(service).id),
                   conferenceId |-> None,
                   name |-> Some(Get(service).name),
                   video |-> Some([joinUrl |-> [label |-> None,
                                                value |-> Get(service).joinUrl],
                                   meetingCode |-> Some(Get(service).id),
                                   accessCode |-> None,
                                   password |-> None]),
                   sip |-> None,
                   phone |-> None])
        ELSE None

\* for (const url of urls) { ... if (service) return service }
FirstMeetingLink(urls) ==
    IF \E i \in 1..Len(urls) : checkMeetingLink(urls[i]) # None
    THEN checkMeetingLink(urls[CHOOSE i \in 1..Len(urls) :
            /\ checkMeetingLink(urls[i]) # None
            /\ \A j \in 1..(i - 1) : checkMeetingLink(urls[j]) = None])
    ELSE None

HasFileUrl(attachment) == attachment.fileUrl # None
FileUrls(attachments) ==
    LET withUrl == SelectSeq(attachments, HasFileUrl)
    IN  [i \in 1..Len(withUrl) |-> Get(withUrl[i].fileUrl)]

\* mutant: the description is scanned before the hangout link
parseGoogleCalendarConferenceFallback_descriptionFirst(event) ==
    LET hangoutLink == IF event.hangoutLink = None THEN None
                       ELSE checkMeetingLink(Get(event.hangoutLink))
        description == IF event.description = None THEN None
                       ELSE FirstMeetingLink(extractUrls(Get(event.description)))
        location == IF event.location = None THEN None
                    ELSE FirstMeetingLink(extractUrls(Get(event.location)))
        source == IF event.source = None \/ Get(event.source).url = None THEN None
                  ELSE checkMeetingLink(Get(Get(event.source).url))
        attachments == IF event.attachments = None THEN None
                       ELSE FirstMeetingLink(FileUrls(Get(event.attachments)))
        gadget == IF event.gadget = None \/ Get(event.gadget).link = None THEN None
                  ELSE checkMeetingLink(Get(Get(event.gadget).link))
    IN  IF description # None THEN description
        ELSE IF hangoutLink # None THEN hangoutLink
        ELSE IF location # None THEN location
        ELSE IF source # None THEN source
        ELSE IF attachments # None THEN attachments
        ELSE gadget

parseGoogleCalendarConferenceFallback(event) ==
    LET hangoutLink == IF event.hangoutLink = None THEN None
                       ELSE checkMeetingLink(Get(event.hangoutLink))
        description == IF event.description = None THEN None
                       ELSE FirstMeetingLink(extractUrls(Get(event.description)))
        location == IF event.location = None THEN None
                    ELSE FirstMeetingLink(extractUrls(Get(event.location)))
        source == IF event.source = None \/ Get(event.source).url = None THEN None
                  ELSE checkMeetingLink(Get(Get(event.source).url))
        attachments == IF event.attachments = None THEN None
                       ELSE FirstMeetingLink(FileUrls(Get(event.attachments)))
        gadget == IF event.gadget = None \/ Get(event.gadget).link = None THEN None
                  ELSE checkMeetingLink(Get(Get(event.gadget).link))
    IN  IF hangoutLink # None THEN hangoutLink
        ELSE IF description # None THEN description
        ELSE IF location # None THEN location
        ELSE IF source # None THEN source
        ELSE IF attachments # None THEN attachments
        ELSE gadget

\* entryPoints.find(...) replaced by the last match
FindEntryPoint_lastMatch(entryPoints, type) ==
    IF \E i \in 1..Len(entryPoints) : entryPoints[i].entryPointType = Some(type)
    THEN Some(entryPoints[CHOOSE i \in 1..Len(entryPoints) :
            /\ entryPoints[i].entryPointType = Some(type)
            /\ \A j \in (i + 1)..Len(entryPoints) :
                  entryPoints[j].entryPointType # Some(type)])
    ELSE None

\* entryPoints.find((e) => e.entryPointType === type)
FindEntryPoint(entryPoints, type) ==
    IF \E i \in 1..Len(entryPoints) : entryPoints[i].entryPointType = Some(type)
    THEN Some(entryPoints[CHOOSE i \in 1..Len(entryPoints) :
            /\ entryPoints[i].entryPointType = Some(type)
            /\ \A j \in 1..(i - 1) : entryPoints[j].entryPointType # Some(type)])
    ELSE None

IsPhoneWithUri(e) == e.entryPointType = Some("phone") /\ e.uri # None

\* one canonical entry point read from a provider entry point that has a uri
ConferenceEntryPoint(entryPoint) ==
    [joinUrl |-> [label |-> entryPoint.label, value |-> Get(entryPoint.uri)],
     meetingCode |-> entryPoint.meetingCode,
     accessCode |-> entryPoint.accessCode,
     password |-> entryPoint.password]

\* !event.conferenceData?.entryPoints?.length
NoEntryPoints(event) ==
    \/ event.conferenceData = None
    \/ Get(event.conferenceData).entryPoints = None
    \/ Len(Get(Get(event.conferenceData).entryPoints)) = 0

parseGoogleCalendarConferenceData(event) ==
    IF NoEntryPoints(event)
    THEN parseGoogleCalendarConferenceFallback(event)
    ELSE LET conferenceData == Get(event.conferenceData)
             entryPoints == Get(conferenceData.entryPoints)
             videoEntryPoint == FindEntryPoint(entryPoints, "video")
             sipEntryPoint == FindEntryPoint(entryPoints, "sip")
             phoneEntryPoints == SelectSeq(entryPoints, IsPhoneWithUri)
             detected == IF videoEntryPoint # None /\ Get(videoEntryPoint).uri # None
                         THEN detectMeetingLink(Get(Get(videoEntryPoint).uri))
                         ELSE None
         IN  Some([id |-> IF detected = None THEN None ELSE Some(Get(detected).id),
                   conferenceId |-> conferenceData.conferenceId,
                   name |-> IF conferenceData.conferenceSolution = None THEN None
                            ELSE Get(conferenceData.conferenceSolution).name,
                   video |-> IF videoEntryPoint # None
                                /\ Get(videoEntryPoint).uri # None
                             THEN Some(ConferenceEntryPoint(Get(videoEntryPoint)))
                             ELSE None,
                   sip |-> IF sipEntryPoint # None /\ Get(sipEntryPoint).uri # None
                           THEN Some(ConferenceEntryPoint(Get(sipEntryPoint)))
                           ELSE None,
                   phone |-> IF Len(phoneEntryPoints) > 0
                             THEN Some([i \in 1..Len(phoneEntryPoints) |->
                                          ConferenceEntryPoint(phoneEntryPoints[i])])
                             ELSE None])

\* new URL(joinUrl): hostname + pathname; the argument itself when it is
\* not a URL
toJoinUrl(joinUrl) ==
    IF joinUrl = MeetUrl THEN "meet.google.com/abc-defg-hij"
    ELSE IF joinUrl = ZoomUrl THEN "zoom.us/j/5551234"
    ELSE IF joinUrl = TeamsUrl THEN "teams.microsoft.com/l/meetup-join/19"
    ELSE IF joinUrl = OtherUrl THEN "example.com/agenda"
    ELSE joinUrl

PhoneNumber == "+15550100"
TelUri == "tel:+15550100"
SipUri == "sip:5551234@zoomcrc.com"

\* value.startsWith("tel:")
StartsWithTel(value) == value \in {"tel:+15550100", "tel:tel:+15550100"}

\* `tel:${value}`
PrefixTel(value) ==
    IF value = "+15550100" THEN "tel:+15550100"
    ELSE IF value = "tel:+15550100" THEN "tel:tel:+15550100"
    ELSE value

\* value.startsWith("tel:") ? value : `tel:${value}`
toTelUri(value) == IF StartsWithTel(value) THEN value ELSE PrefixTel(value)

\* name.toLowerCase()
ToLowerCase(name) ==
    IF name = "Google Meet" THEN "google meet"
    ELSE IF name = "GOOGLE Hangouts" THEN "google hangouts"
    ELSE IF name = "Zoom" THEN "zoom"
    ELSE name

\* conference.name.toLowerCase().includes("google")
MentionsGoogle(name) == ToLowerCase(name) \in {"google meet", "google hangouts"}

toGoogleCalendarConferenceData(conference) ==
    LET video == IF conference.video # None
                    /\ Get(conference.video).joinUrl.value # ""
                 THEN <<[entryPointType |-> Some("video"),
                         uri |-> Some(Get(conference.video).joinUrl.value),
                         label |-> IF Get(conference.video).joinUrl.label # None
                                   THEN Get(conference.video).joinUrl.label
                                   ELSE Some(toJoinUrl(
                                            Get(conference.video).joinUrl.value)),
                         meetingCode |-> Get(conference.video).meetingCode,
                         accessCode |-> Get(conference.video).meetingCode,
                         password |-> Get(conference.video).password]>>
                 ELSE <<>>
        sip == IF conference.sip # None
                  /\ Get(conference.sip).joinUrl.value # ""
               THEN <<[entryPointType |-> Some("sip"),
                       uri |-> Some(Get(conference.sip).joinUrl.value),
                       label |-> Get(conference.sip).joinUrl.label,
                       meetingCode |-> Get(conference.sip).meetingCode,
                       accessCode |-> Get(conference.sip).meetingCode,
                       password |-> Get(conference.sip).password]>>
               ELSE <<>>
        phone == IF conference.phone # None
                 THEN [i \in 1..Len(Get(conference.phone)) |->
                          LET phoneEntry == Get(conference.phone)[i]
                          IN  [entryPointType |-> Some("phone"),
                               uri |-> Some(toTelUri(phoneEntry.joinUrl.value)),
                               label |-> IF phoneEntry.joinUrl.label # None
                                         THEN phoneEntry.joinUrl.label
                                         ELSE Some(phoneEntry.joinUrl.value),
                               meetingCode |-> None,
                               accessCode |-> phoneEntry.accessCode,
                               password |-> None]]
                 ELSE <<>>
        entryPoints == video \o sip \o phone
        conferenceSolutionType ==
            IF conference.name # None /\ Get(conference.name) # ""
            THEN IF MentionsGoogle(Get(conference.name)) THEN "hangoutsMeet"
                 ELSE "addOn"
            ELSE "hangoutsMeet"
    IN  [conferenceId |-> conference.conferenceId,
         conferenceSolution |->
             Some([name |-> IF conference.name # None THEN conference.name
                            ELSE Some("Google Meet"),
                   key |-> Some([type |-> conferenceSolutionType])]),
         entryPoints |-> IF Len(entryPoints) > 0 THEN Some(entryPoints) ELSE None]

GoogleIsAllDay(event) ==
    ~(event.start # None /\ Get(event.start).dateTime # None)

\* mutant: end is parsed by its own shape, not by the start's
parseGoogleCalendarEvent_endByOwnShape(event) ==
    LET isAllDay == GoogleIsAllDay(event)
        blockedTime == GoogleParseBlockedTime(event)
        start == IF isAllDay THEN GoogleParseDate(event.start)
                 ELSE GoogleParseDateTime(event.start)
        end == IF event.end # None /\ Get(event.end).dateTime # None
               THEN GoogleParseDateTime(event.end)
               ELSE GoogleParseDate(event.end)
    IN  IF IsError(start) THEN start
        ELSE IF IsError(end) THEN end
        ELSE [kind |-> "CalendarEvent",
              start |-> start,
              end |-> end,
              allDay |-> isAllDay,
              providerId |-> "google",
              description |-> event.description,
              location |-> event.location,
              conference |-> parseGoogleCalendarConferenceData(event),
              metadata |->
                  [private |-> IF event.extendedProperties = None THEN None
                               ELSE Get(event.extendedProperties).private,
                   shared |-> IF event.extendedProperties = None THEN None
                              ELSE Get(event.extendedProperties).shared,
                   blockedTime |-> blockedTime]]

parseGoogleCalendarEvent(event) ==
    LET isAllDay == GoogleIsAllDay(event)
        blockedTime == GoogleParseBlockedTime(event)
        start == IF isAllDay THEN GoogleParseDate(event.start)
                 ELSE GoogleParseDateTime(event.start)
        end == IF isAllDay THEN GoogleParseDate(event.end)
               ELSE GoogleParseDateTime(event.end)
    IN  IF IsError(start) THEN start
        ELSE IF IsError(end) THEN end
        ELSE [kind |-> "CalendarEvent",
              start |-> start,
              end |-> end,
              allDay |-> isAllDay,
              providerId |-> "google",
              description |-> event.description,
              location |-> event.location,
              conference |-> parseGoogleCalendarConferenceData(event),
              metadata |->
                  [private |-> IF event.extendedProperties = None THEN None
                               ELSE Get(event.extendedProperties).private,
                   shared |-> IF event.extendedProperties = None THEN None
                              ELSE Get(event.extendedProperties).shared,
                   blockedTime |-> blockedTime]]

toGoogleCalendarEvent(event) ==
    LET blockedTimeExtendedProperties ==
            IF event.metadata # None /\ Get(event.metadata).blockedTime # None
            THEN Some(toGoogleCalendarBlockedTime(
                          Get(Get(event.metadata).blockedTime)))
            ELSE None
    IN  [description |-> event.description,
         location |-> event.location,
         start |-> Some(toGoogleCalendarDate(event.start)),
         end |-> Some(toGoogleCalendarDate(event.end)),
         conferenceData |->
             IF event.conference # None
             THEN Some(toGoogleCalendarConferenceData(Get(event.conference)))
             ELSE None,
         conferenceDataVersion |-> 1,
         extendedProperties |-> blockedTimeExtendedProperties,
         hangoutLink |-> None,
         source |-> None,
         attachments |-> None,
         gadget |-> None]

(***************************************************************************)
(* Microsoft codec: dates                                                  *)
(***************************************************************************)
RawZones ==
    {"W. Europe Standard Time", "Eastern Standard Time", "tzone://Microsoft/Custom"}
        \cup Zones

\* parseTimeZone of microsoft-calendar/utils: a Windows zone name or an IANA
\* identifier to the IANA identifier; undefined when the string names no zone
parseTimeZone(raw) ==
    CASE raw = "W. Europe Standard Time" -> Some("Europe/Berlin")
      [] raw = "Eastern Standard Time" -> Some("America/New_York")
      [] raw \in Zones -> Some(raw)
      [] OTHER -> None

\* parseDateTime of microsoft-calendar/utils: a date-time with a zone is a
\* zoned date-time anchored to that zone, one without a zone is an instant
MicrosoftParseDateTime(dateTime, timeZone) ==
    IF dateTime = None THEN Throw("TypeError", "invalid date-time")
    ELSE IF timeZone = None THEN Instant(InstantOf(Get(dateTime), "UTC"))
    ELSE LET zone == IF parseTimeZone(Get(timeZone)) = None THEN "UTC"
                     ELSE Get(parseTimeZone(Get(timeZone)))
         IN  ZonedDateTime(InstantOf(Get(dateTime), zone), zone)

\* mutant: a calendar date is emitted as midnight of its day
toMicrosoftDate_midnight(value, originalTimeZone) ==
    IF value.kind = "PlainDate"
    THEN [dateTime |-> Some(IsoLocal(24 * value.day)),
          timeZone |-> IF originalTimeZone # None
                       THEN Some(Get(originalTimeZone).raw)
                       ELSE Some("UTC")]
    ELSE IF value.kind = "Instant"
    THEN [dateTime |-> Some(PlainDateTimeInUtcToString(value)),
          timeZone |-> Some("UTC")]
    ELSE [dateTime |-> Some(InstantToString(value)),
          timeZone |-> IF originalTimeZone # None
                          /\ Get(originalTimeZone).parsed = Some(value.timeZoneId)
                       THEN Some(Get(originalTimeZone).raw)
                       ELSE Some(value.timeZoneId)]

toMicrosoftDate(value, originalTimeZone) ==
    IF value.kind = "PlainDate"
    THEN [dateTime |-> Some(PlainDateToString(value)),
          timeZone |-> IF originalTimeZone # None
                       THEN Some(Get(originalTimeZone).raw)
                       ELSE Some("UTC")]
    ELSE IF value.kind = "Instant"
    THEN [dateTime |-> Some(PlainDateTimeInUtcToString(value)),
          timeZone |-> Some("UTC")]
    ELSE [dateTime |-> Some(InstantToString(value)),
          timeZone |-> IF originalTimeZone # None
                          /\ Get(originalTimeZone).parsed = Some(value.timeZoneId)
                       THEN Some(Get(originalTimeZone).raw)
                       ELSE Some(value.timeZoneId)]

\* parseDate(date) of the Microsoft codec
MicrosoftParseDate(date) == PlainDateFrom(date)

\* metadata.originalStartTimeZone / originalEndTimeZone of a parsed event
ParseOriginalTimeZone(original) ==
    IF original = None THEN None
    ELSE Some([raw |-> Get(original), parsed |-> parseTimeZone(Get(original))])

\* prop && prop.id && prop.id.includes("Name blockedTime")
IsBlockedTimeProperty(prop) == prop.id # None /\ Get(prop.id).name = "blockedTime"

\* parseBlockedTime(event) of the Microsoft codec
MicrosoftParseBlockedTime(event) ==
    IF event.singleValueExtendedProperties = None THEN None
    ELSE LET found == SelectSeq(Get(event.singleValueExtendedProperties),
                                IsBlockedTimeProperty)
         IN  IF Len(found) = 0 \/ ~Truthy(found[1].value) THEN None
             ELSE AdmissibleWindow(Get(found[1].value))

\* mutant: the property id carries no Name marker
toMicrosoftBlockedTime_unnamed(blockedTime, uuid) ==
    <<[id |-> Some([marker |-> uuid, name |-> "other"]),
       value |-> Some(JsonStringify(blockedTime))]>>

\* mutant: the random marker also stands where the name should
toMicrosoftBlockedTime_markerAsName(blockedTime, uuid) ==
    <<[id |-> Some([marker |-> uuid, name |-> uuid]),
       value |-> Some(JsonStringify(blockedTime))]>>

\* the id `String {${crypto.randomUUID()}} Name blockedTime` is a record of
\* the random marker and the name that follows it
toMicrosoftBlockedTime(blockedTime, uuid) ==
    <<[id |-> Some([marker |-> uuid, name |-> "blockedTime"]),
       value |-> Some(JsonStringify(blockedTime))]>>

(***************************************************************************)
(* Microsoft codec: attendees and the own response                         *)
(***************************************************************************)
\* mutant: the organizer's own entry counts as not answered
parseMicrosoftAttendeeStatus_organizerUnknown(status) ==
    IF status = Some("notResponded") \/ status = Some("none") THEN "unknown"
    ELSE IF status = Some("accepted") THEN "accepted"
    ELSE IF status = Some("tentativelyAccepted") THEN "tentative"
    ELSE IF status = Some("declined") THEN "declined"
    ELSE "unknown"

parseMicrosoftAttendeeStatus(status) ==
    IF status = Some("notResponded") \/ status = Some("none") THEN "unknown"
    ELSE IF status = Some("accepted") \/ status = Some("organizer") THEN "accepted"
    ELSE IF status = Some("tentativelyAccepted") THEN "tentative"
    ELSE IF status = Some("declined") THEN "declined"
    ELSE "unknown"

\* attendee.status?.response is the field response; attendee.type! is copied
parseMicrosoftAttendee(attendee) ==
    [email |-> attendee.emailAddress.address,
     name |-> attendee.emailAddress.name,
     status |-> parseMicrosoftAttendeeStatus(attendee.response),
     type |-> attendee.type]

\* event.attendees?.map(parseMicrosoftAttendee) ?? []
parseMicrosoftAttendeeList(attendees) ==
    [i \in 1..Len(attendees) |-> parseMicrosoftAttendee(attendees[i])]

\* mutant: a lone organizer counts as having other attendees
parseResponseStatus_loneOrganizer(event) ==
    LET organizerIsAttendee ==
            IF event.attendees = None THEN FALSE
            ELSE \E i \in 1..Len(Get(event.attendees)) :
                    Get(event.attendees)[i].response = Some("organizer")
    IN  IF event.attendees = None \/ ~organizerIsAttendee
           \/ Len(Get(event.attendees)) = 0
        THEN None
        ELSE IF event.responseStatus # None
                /\ Get(event.responseStatus).response # None
             THEN Some(parseMicrosoftAttendeeStatus(
                          Get(event.responseStatus).response))
             ELSE None

parseResponseStatus(event) ==
    LET organizerIsAttendee ==
            IF event.attendees = None THEN FALSE
            ELSE \E i \in 1..Len(Get(event.attendees)) :
                    Get(event.attendees)[i].response = Some("organizer")
    IN  IF event.attendees = None \/ ~organizerIsAttendee
           \/ Len(Get(event.attendees)) = 0
        THEN None
        ELSE LET hasOtherAttendees ==
                     organizerIsAttendee /\ Len(Get(event.attendees)) > 1
             IN  IF ~hasOtherAttendees THEN None
                 ELSE IF event.responseStatus # None
                         /\ Get(event.responseStatus).response # None
                      THEN Some(parseMicrosoftAttendeeStatus(
                                   Get(event.responseStatus).response))
                      ELSE None

parseMicrosoftEvent(event) ==
    IF event.start = None \/ event.end = None
    THEN Throw("Error", "Event start or end is missing")
    ELSE LET isAllDay == event.isAllDay = Some(TRUE)
             responseStatus == parseResponseStatus(event)
             blockedTime == MicrosoftParseBlockedTime(event)
             s == Get(event.start)
             e == Get(event.end)
             start == IF isAllDay THEN MicrosoftParseDate(s.dateTime)
                      ELSE MicrosoftParseDateTime(s.dateTime, s.timeZone)
             end == IF isAllDay THEN MicrosoftParseDate(e.dateTime)
                    ELSE MicrosoftParseDateTime(e.dateTime, e.timeZone)
         IN  IF IsError(start) THEN start
             ELSE IF IsError(end) THEN end
             ELSE [kind |-> "CalendarEvent",
                   start |-> start,
                   end |-> end,
                   allDay |-> isAllDay,
                   providerId |-> "microsoft",
                   title |-> event.subject,
                   attendees |-> IF event.attendees = None THEN <<>>
                                 ELSE parseMicrosoftAttendeeList(
                                          Get(event.attendees)),
                   response |-> IF responseStatus # None
                                THEN Some([status |-> Get(responseStatus)])
                                ELSE None,
                   metadata |->
                       [originalStartTimeZone |->
                            ParseOriginalTimeZone(event.originalStartTimeZone),
                        originalEndTimeZone |->
                            ParseOriginalTimeZone(event.originalEndTimeZone),
                        blockedTime |-> blockedTime]]

\* mutant: end reads the start's provenance
toMicrosoftEvent_startProvenanceForEnd(event, uuid) ==
    [subject |-> event.title,
     body |-> IF event.description # None /\ Get(event.description) # <<>>
              THEN Some([contentType |-> "text",
                         content |-> Get(event.description)])
              ELSE None,
     start |-> Some(toMicrosoftDate(
                   event.start,
                   IF event.metadata = None THEN None
                   ELSE Get(event.metadata).originalStartTimeZone)),
     end |-> Some(toMicrosoftDate(
                 event.end,
                 IF event.metadata = None THEN None
                 ELSE Get(event.metadata).originalStartTimeZone)),
     isAllDay |-> IF event.allDay = None THEN Some(FALSE) ELSE event.allDay,
     location |-> IF event.location # None /\ Get(event.location) # <<>>
                  THEN Some([displayName |-> Get(event.location)])
                  ELSE None,
     attendees |-> None,
     responseStatus |-> None,
     originalStartTimeZone |-> None,
     originalEndTimeZone |-> None,
     singleValueExtendedProperties |->
         IF event.metadata # None /\ Get(event.metadata).blockedTime # None
         THEN Some(toMicrosoftBlockedTime(Get(Get(event.metadata).blockedTime),
                                          uuid))
         ELSE None]

\* mutant: the conference spread of the serializer is not commented out
toMicrosoftEvent_conferenceSent(event, uuid) ==
    [isOnlineMeeting |-> event.conference # None,
     subject |-> event.title,
     body |-> IF event.description # None /\ Get(event.description) # <<>>
              THEN Some([contentType |-> "text",
                         content |-> Get(event.description)])
              ELSE None,
     start |-> Some(toMicrosoftDate(
                   event.start,
                   IF event.metadata = None THEN None
                   ELSE Get(event.metadata).originalStartTimeZone)),
     end |-> Some(toMicrosoftDate(
                 event.end,
                 IF event.metadata = None THEN None
                 ELSE Get(event.metadata).originalEndTimeZone)),
     isAllDay |-> IF event.allDay = None THEN Some(FALSE) ELSE event.allDay,
     location |-> IF event.location # None /\ Get(event.location) # <<>>
                  THEN Some([displayName |-> Get(event.location)])
                  ELSE None,
     attendees |-> None,
     responseStatus |-> None,
     originalStartTimeZone |-> None,
     originalEndTimeZone |-> None,
     singleValueExtendedProperties |->
         IF event.metadata # None /\ Get(event.metadata).blockedTime # None
         THEN Some(toMicrosoftBlockedTime(Get(Get(event.metadata).blockedTime),
                                          uuid))
         ELSE None]

toMicrosoftEvent(event, uuid) ==
    [subject |-> event.title,
     body |-> IF event.description # None /\ Get(event.description) # <<>>
              THEN Some([contentType |-> "text",
                         content |-> Get(event.description)])
              ELSE None,
     start |-> Some(toMicrosoftDate(
                   event.start,
                   IF event.metadata = None THEN None
                   ELSE Get(event.metadata).originalStartTimeZone)),
     end |-> Some(toMicrosoftDate(
                 event.end,
                 IF event.metadata = None THEN None
                 ELSE Get(event.metadata).originalEndTimeZone)),
     isAllDay |-> IF event.allDay = None THEN Some(FALSE) ELSE event.allDay,
     location |-> IF event.location # None /\ Get(event.location) # <<>>
                  THEN Some([displayName |-> Get(event.location)])
                  ELSE None,
     attendees |-> None,
     responseStatus |-> None,
     originalStartTimeZone |-> None,
     originalEndTimeZone |-> None,
     singleValueExtendedProperties |->
         IF event.metadata # None /\ Get(event.metadata).blockedTime # None
         THEN Some(toMicrosoftBlockedTime(Get(Get(event.metadata).blockedTime),
                                          uuid))
         ELSE None]

(***************************************************************************)
(* Codec harness: a canonical input enters the serialize path and the      *)
(* payload is parsed back; a provider resource enters the parse path.      *)
(***************************************************************************)
OriginalTimeZones ==
    {None} \cup
        {Some([raw |-> r, parsed |-> p]) :
            r \in {"W. Europe Standard Time", "Europe/Berlin"},
            p \in {None, Some("Europe/Berlin"), Some("UTC")}}

\* metadata.blockedTime of an input: before and after are positive integers
BlockedTimes ==
    [before : {None, Some(15), Some(30)}, after : {None, Some(15), Some(30)}]

\* conferenceEntryPointSchema
VideoEntries ==
    {[joinUrl |-> [label |-> None, value |-> MeetUrl],
      meetingCode |-> Some("abc-defg-hij"), accessCode |-> None, password |-> None],
     [joinUrl |-> [label |-> Some("Join"), value |-> ZoomUrl],
      meetingCode |-> None, accessCode |-> None, password |-> Some("s3cret")]}

SipEntries ==
    {[joinUrl |-> [label |-> None, value |-> SipUri],
      meetingCode |-> None, accessCode |-> None, password |-> None]}

PhoneEntries ==
    {[joinUrl |-> [label |-> l, value |-> v],
      meetingCode |-> None, accessCode |-> a, password |-> None] :
        l \in {None}, v \in {PhoneNumber, TelUri}, a \in {None, Some("4321")}}

\* conferenceSchema
Conferences ==
    [id : {None},
     conferenceId : {None, Some("conf-1")},
     name : {None, Some(""), Some("Google Meet"), Some("GOOGLE Hangouts"),
             Some("Zoom")},
     video : {None} \cup {Some(e) : e \in VideoEntries},
     sip : {None} \cup {Some(e) : e \in SipEntries},
     phone : {None, Some(<<>>)} \cup {Some(<<e>>) : e \in PhoneEntries}
                \cup {Some(<<e, f>>) :
                         e \in {x \in PhoneEntries : x.accessCode = None},
                         f \in {x \in PhoneEntries : x.accessCode # None}}]

\* createEventInputSchema / updateEventInputSchema: start, end, allDay and the
\* provider metadata are validated independently of one another
DateInputs(c) ==
    [id : {"evt-1"},
     title : {Some("Standup")},
     attendees : {None},
     recurrence : {None},
     recurringEventId : {None},
     response : {None},
     color : {None},
     start : DateValues,
     end : DateValues,
     allDay : {None, Some(TRUE), Some(FALSE)},
     description : {None},
     location : {None},
     conference : {None},
     metadata : IF c = "google" THEN {None}
                ELSE {None} \cup
                     {Some(m) : m \in [originalStartTimeZone : OriginalTimeZones,
                                       originalEndTimeZone : OriginalTimeZones,
                                       blockedTime : {None}]}]

\* inputs that differ in their blocked-time window
BlockedTimeInputs(c) ==
    [id : {"evt-1"},
     title : {Some("Standup")},
     attendees : {None},
     recurrence : {None},
     recurringEventId : {None},
     response : {None},
     color : {None},
     start : {PlainDate(0)},
     end : {PlainDate(1)},
     allDay : {Some(TRUE)},
     description : {None},
     location : {None, Some(<<"Room", "4">>)},
     conference : {None},
     metadata :
         IF c = "google"
         THEN {Some(m) : m \in [private : {None},
                                shared : {None},
                                blockedTime : {None} \cup
                                    {Some(w) : w \in BlockedTimes}]}
         ELSE {Some(m) : m \in [originalStartTimeZone :
                                    {None, Some([raw |-> "W. Europe Standard Time",
                                                 parsed |-> Some("Europe/Berlin")])},
                                originalEndTimeZone : {None},
                                blockedTime : {None} \cup
                                    {Some(w) : w \in BlockedTimes}]}]

\* inputs that differ in their conference
ConferenceInputs(c) ==
    [id : {"evt-1"},
     title : {Some("Standup")},
     attendees : {None},
     recurrence : {None},
     recurringEventId : {None},
     response : {None},
     color : {None},
     start : {ZonedDateTime(0, "Europe/Berlin")},
     end : {ZonedDateTime(12, "Europe/Berlin")},
     allDay : {Some(FALSE)},
     description : {None, Some(<<"Agenda", OtherUrl>>)},
     location : {None},
     conference : {Some(conference) : conference \in Conferences},
     metadata : {None}]

\* attendeeSchema
SampleAttendee ==
    [email |-> "bob@example.com", name |-> None, status |-> "accepted",
     type |-> "required"]

\* values of the fields the Microsoft serializer does not read: attendees,
\* conference, recurrence, recurringEventId, response, color and id
FrameVariants ==
    {[id |-> "evt-1", attendees |-> None, conference |-> None,
      recurrence |-> None, recurringEventId |-> None, response |-> None,
      color |-> None],
     [id |-> "evt-1", attendees |-> Some(<<SampleAttendee>>),
      conference |-> Some([id |-> None, conferenceId |-> Some("conf-1"),
                           name |-> Some("Zoom"),
                           video |-> Some([joinUrl |-> [label |-> None,
                                                        value |-> ZoomUrl],
                                           meetingCode |-> None,
                                           accessCode |-> None,
                                           password |-> None]),
                           sip |-> None, phone |-> None]),
      recurrence |-> None, recurringEventId |-> None, response |-> None,
      color |-> None],
     [id |-> "evt-1", attendees |-> None, conference |-> None,
      recurrence |-> Some([freq |-> "WEEKLY", interval |-> Some(2)]),
      recurringEventId |-> Some("series-1"), response |-> None,
      color |-> None],
     [id |-> "evt-2", attendees |-> None, conference |-> None,
      recurrence |-> None, recurringEventId |-> None,
      response |-> Some([status |-> "declined", comment |-> None,
                         sendUpdate |-> FALSE]),
      color |-> Some("#ff0000")]}

\* the input with the unread fields replaced
WithFrame(event, v) ==
    [event EXCEPT !.id = v.id, !.attendees = v.attendees,
                  !.conference = v.conference, !.recurrence = v.recurrence,
                  !.recurringEventId = v.recurringEventId,
                  !.response = v.response, !.color = v.color]

\* inputs that differ in title, description, location and the unread fields
FrameInputs(c) ==
    IF c = "google" THEN {}
    ELSE {WithFrame(e, v) :
            e \in [id : {"evt-1"},
                   title : {None, Some("Standup")},
                   attendees : {None},
                   recurrence : {None},
                   recurringEventId : {None},
                   response : {None},
                   color : {None},
                   start : {ZonedDateTime(0, "Europe/Berlin")},
                   end : {ZonedDateTime(12, "Europe/Berlin")},
                   allDay : {None, Some(FALSE)},
                   description : {None, Some(<<>>), Some(<<"Agenda">>)},
                   location : {None, Some(<<>>), Some(<<"Room", "4">>)},
                   conference : {None},
                   metadata :
                       {None,
                        Some([originalStartTimeZone |-> None,
                              originalEndTimeZone |-> None,
                              blockedTime |->
                                  Some([before |-> Some(15), after |-> None])])}],
            v \in FrameVariants}

EventInputs(c) ==
    DateInputs(c) \cup BlockedTimeInputs(c) \cup ConferenceInputs(c)
        \cup FrameInputs(c)

IsoStrings ==
    {IsoDate(d) : d \in Days} \cup {IsoLocal(t) : t \in Epochs}
        \cup {IsoUtc(t) : t \in Epochs} \cup {IsoOffset(t + 1, 1) : t \in Epochs}

\* start / end of a Google event resource: { date } or { dateTime, timeZone? }
GoogleDates ==
    {None}
        \cup {Some([date |-> Some(IsoDate(d)), dateTime |-> None, timeZone |-> None]) :
                d \in Days}
        \cup {Some([date |-> None, dateTime |-> Some(s), timeZone |-> z]) :
                s \in IsoStrings \ {IsoDate(d) : d \in Days},
                z \in {None, Some("Europe/Berlin")}}

\* minute counts a stored blocked-time window may hold
BlockedMinutes == {-1, 0, 15, 30}

JsonMembers ==
    {None, Some(JsonString), Some(JsonNull)}
        \cup {Some(JsonNumber(n)) : n \in BlockedMinutes}

\* strings a blockedTime extended property may hold
JsonTexts ==
    {JsonText(k, None, None) : k \in {"empty", "malformed", "null", "number"}}
        \cup {JsonText("object", b, a) : b \in JsonMembers, a \in JsonMembers}

\* extendedProperties.private / .shared: string-valued records
PropertyBags == [blockedTime : {None} \cup {Some(t) : t \in JsonTexts}]

SamplePropertyBags ==
    {None,
     Some([blockedTime |-> None]),
     Some([blockedTime |-> Some(JsonText("empty", None, None))]),
     Some([blockedTime |-> Some(JsonText("object", None, Some(JsonNumber(30))))])}

ExtendedProperties ==
    {None}
        \cup {Some([private |-> Some(p), shared |-> q]) :
                p \in PropertyBags, q \in SamplePropertyBags}
        \cup {Some([private |-> q, shared |-> Some(p)]) :
                p \in PropertyBags, q \in SamplePropertyBags}

\* conferenceData.entryPoints[i]
EntryPoints ==
    {[entryPointType |-> Some(t), uri |-> u, label |-> None,
      meetingCode |-> None, accessCode |-> None, password |-> None] :
        t \in {"video", "sip", "phone", "more"}, u \in {None, Some(MeetUrl)}}
        \cup {[entryPointType |-> Some("video"), uri |-> Some(OtherUrl),
               label |-> Some("Join"), meetingCode |-> Some("abc"),
               accessCode |-> Some("1234"), password |-> Some("s3cret")],
              [entryPointType |-> Some("phone"), uri |-> Some(TelUri),
               label |-> Some(PhoneNumber), meetingCode |-> None,
               accessCode |-> Some("4321"), password |-> None],
              [entryPointType |-> None, uri |-> Some(ZoomUrl),
               label |-> None, meetingCode |-> None,
               accessCode |-> None, password |-> None]}

\* event.conferenceData
ConferenceDatas ==
    {None}
        \cup {Some([conferenceId |-> IF named THEN Some("conf-1") ELSE None,
                    conferenceSolution |->
                        IF named
                        THEN Some([name |-> Some("Google Meet"),
                                   key |-> Some([type |-> "hangoutsMeet"])])
                        ELSE None,
                    entryPoints |-> e]) :
                named \in BOOLEAN,
                e \in {None} \cup
                      {Some(l) : l \in SeqsUpTo(EntryPoints, MaxEntryPoints)}}

\* the fields scanned by the conference fallback
FallbackFields ==
    [hangoutLink : {None, Some(MeetUrl), Some(OtherUrl)},
     description : {None, Some(<<"Agenda", "attached">>),
                    Some(<<"See", OtherUrl, "or", ZoomUrl, "or", MeetUrl>>),
                    Some(<<TeamsUrl>>)},
     location : {None, Some(<<MeetUrl>>), Some(<<"Room", OtherUrl>>),
                 Some(<<ZoomUrl, TeamsUrl>>)},
     source : {None, Some([url |-> None]), Some([url |-> Some(TeamsUrl)]),
               Some([url |-> Some(OtherUrl)])},
     attachments : {None,
                    Some(<<[fileUrl |-> None]>>),
                    Some(<<[fileUrl |-> Some(OtherUrl)], [fileUrl |-> Some(ZoomUrl)],
                           [fileUrl |-> Some(MeetUrl)]>>),
                    Some(<<[fileUrl |-> None], [fileUrl |-> Some(MeetUrl)]>>)},
     gadget : {None, Some([link |-> Some(ZoomUrl)]), Some([link |-> Some(OtherUrl)])}]

NoFallbackFields ==
    [hangoutLink |-> None, description |-> None, location |-> None,
     source |-> None, attachments |-> None, gadget |-> None]

SampleFallbackFields ==
    {NoFallbackFields,
     [hangoutLink |-> Some(ZoomUrl), description |-> Some(<<TeamsUrl>>),
      location |-> None, source |-> None, attachments |-> None, gadget |-> None]}

GoogleEvent(start, end, extendedProperties, conferenceData, f) ==
    [start |-> start,
     end |-> end,
     extendedProperties |-> extendedProperties,
     conferenceData |-> conferenceData,
     hangoutLink |-> f.hangoutLink,
     description |-> f.description,
     location |-> f.location,
     source |-> f.source,
     attachments |-> f.attachments,
     gadget |-> f.gadget]

SampleGoogleDate ==
    Some([date |-> Some(IsoDate(0)), dateTime |-> None, timeZone |-> None])

\* Google event resources: every shape of start / end, every shape of the
\* blocked-time property, every shape of the conference fields
GoogleEvents ==
    {GoogleEvent(start, end, None, None, NoFallbackFields) :
        start \in GoogleDates, end \in GoogleDates}
    \cup {GoogleEvent(SampleGoogleDate, SampleGoogleDate, e, None, NoFallbackFields) :
            e \in ExtendedProperties}
    \cup {GoogleEvent(SampleGoogleDate, SampleGoogleDate, None, c, f) :
            c \in ConferenceDatas, f \in SampleFallbackFields}
    \cup {GoogleEvent(SampleGoogleDate, SampleGoogleDate, None, c, f) :
            c \in {cd \in ConferenceDatas : cd = None \/ Get(cd).entryPoints = None
                                            \/ Get(cd).entryPoints = Some(<<>>)},
            f \in FallbackFields}

\* start / end of a Microsoft event resource: { dateTime, timeZone }
MicrosoftDates ==
    {None}
        \cup {Some([dateTime |-> Some(s), timeZone |-> Some(z)]) :
                s \in {IsoDate(d) : d \in Days} \cup {IsoLocal(t) : t \in Epochs},
                z \in {"UTC", "W. Europe Standard Time"}}

\* random markers crypto.randomUUID() may return
UUIDs == {"9f1c2d3e", "4b2e7a10"}

\* one single-value extended property
ExtendedProperty(name, value) ==
    [id |-> IF name = None THEN None
            ELSE Some([marker |-> "9f1c2d3e", name |-> Get(name)]),
     value |-> value]

\* event.singleValueExtendedProperties
SingleValueExtendedProperties ==
    {None, Some(<<>>)}
        \cup {Some(<<ExtendedProperty(n, v)>>) :
                n \in {None, Some("blockedTime"), Some("color")},
                v \in {None} \cup {Some(t) : t \in JsonTexts}}
        \cup {Some(<<ExtendedProperty(Some("color"), Some(JsonText("number", None, None))),
                     ExtendedProperty(Some("blockedTime"), Some(t))>>) :
                t \in JsonTexts}
        \cup {Some(<<ExtendedProperty(Some("blockedTime"), v),
                     ExtendedProperty(Some("blockedTime"),
                         Some(JsonText("object", Some(JsonNumber(15)), None)))>>) :
                v \in {None, Some(JsonText("object", Some(JsonNumber(0)), None))}}

SampleMicrosoftDate ==
    Some([dateTime |-> Some(IsoDate(0)), timeZone |-> Some("UTC")])

\* event.attendees: absent, empty, or up to MaxAttendees attendees whose
\* status.response is organizer, accepted or missing
EventAttendees ==
    {None}
        \cup {Some(l) : l \in SeqsUpTo(
                 [emailAddress : [address : {"ann@example.com"}, name : {None}],
                  response : {None, Some("organizer"), Some("accepted")},
                  type : {Some("required")}], MaxAttendees)}

\* event.responseStatus
ResponseStatusValues ==
    {None}
        \cup {Some([response |-> x]) :
                x \in {None, Some("none"), Some("organizer"), Some("accepted"),
                       Some("tentativelyAccepted"), Some("declined"),
                       Some("notResponded")}}

MicrosoftEvents ==
    [subject : {Some("Standup")},
     body : {None},
     location : {None},
     attendees : {None},
     responseStatus : {None},
     start : MicrosoftDates,
     end : MicrosoftDates,
     isAllDay : {None, Some(TRUE), Some(FALSE)},
     originalStartTimeZone : {None, Some("W. Europe Standard Time")},
     originalEndTimeZone : {None},
     singleValueExtendedProperties : {None}]
    \cup [subject : {Some("Standup")},
          body : {None},
          location : {None},
          attendees : {None},
          responseStatus : {None},
          start : {SampleMicrosoftDate},
          end : {SampleMicrosoftDate},
          isAllDay : {Some(TRUE)},
          originalStartTimeZone : {None},
          originalEndTimeZone : {None},
          singleValueExtendedProperties : SingleValueExtendedProperties]
    \cup [subject : {Some("Standup")},
          body : {None},
          location : {None},
          attendees : EventAttendees,
          responseStatus : ResponseStatusValues,
          start : {SampleMicrosoftDate},
          end : {SampleMicrosoftDate},
          isAllDay : {Some(TRUE)},
          originalStartTimeZone : {None},
          originalEndTimeZone : {None},
          singleValueExtendedProperties : {None}]

CodecInit ==
    /\ cstep = "idle"
    /\ codec = "none"
    /\ input = None
    /\ payload = None
    /\ parsed = None
    /\ followup = None

\* a validated create / update input reaches a provider codec
Submit ==
    /\ cstep = "idle"
    /\ \E c \in {"google", "microsoft"} : \E e \in EventInputs(c) :
          /\ codec' = c
          /\ input' = Some(e)
    /\ cstep' = "input"
    /\ UNCHANGED <<payload, parsed, followup, attendeeVars, providerVars,
                   validationVars, tableVars>>

SerializeGoogle ==
    /\ cstep = "input"
    /\ codec = "google"
    /\ payload' = Some(toGoogleCalendarEvent(Get(input)))
    /\ cstep' = "serialized"
    /\ UNCHANGED <<codec, input, parsed, followup, attendeeVars, providerVars,
                   validationVars, tableVars>>

\* crypto.randomUUID() returns any marker
SerializeMicrosoft ==
    /\ cstep = "input"
    /\ codec = "microsoft"
    /\ \E uuid \in UUIDs : payload' = Some(toMicrosoftEvent(Get(input), uuid))
    /\ cstep' = "serialized"
    /\ UNCHANGED <<codec, input, parsed, followup, attendeeVars, providerVars,
                   validationVars, tableVars>>

\* a Google API response reaches the Google codec
ReceiveGoogle ==
    /\ cstep = "idle"
    /\ \E ev \in GoogleEvents : payload' = Some(ev)
    /\ cstep' = "received"
    /\ codec' = "google"
    /\ UNCHANGED <<input, parsed, followup, attendeeVars, providerVars,
                   validationVars, tableVars>>

\* a Microsoft Graph API response reaches the Microsoft codec
ReceiveMicrosoft ==
    /\ cstep = "idle"
    /\ \E ev \in MicrosoftEvents : payload' = Some(ev)
    /\ cstep' = "received"
    /\ codec' = "microsoft"
    /\ UNCHANGED <<input, parsed, followup, attendeeVars, providerVars,
                   validationVars, tableVars>>

ParseGoogle ==
    /\ cstep \in {"serialized", "received"}
    /\ codec = "google"
    /\ parsed' = Some(parseGoogleCalendarEvent(Get(payload)))
    /\ cstep' = "parsed"
    /\ UNCHANGED <<codec, input, payload, followup, attendeeVars, providerVars,
                   validationVars, tableVars>>

ParseMicrosoft ==
    /\ cstep \in {"serialized", "received"}
    /\ codec = "microsoft"
    /\ parsed' = Some(parseMicrosoftEvent(Get(payload)))
    /\ cstep' = "parsed"
    /\ UNCHANGED <<codec, input, payload, followup, attendeeVars, providerVars,
                   validationVars, tableVars>>

\* the same input is serialized a second time
SerializeAgain ==
    /\ cstep = "serialized"
    /\ \/ /\ codec = "google"
          /\ followup' = Some(toGoogleCalendarEvent(Get(input)))
       \/ /\ codec = "microsoft"
          /\ \E uuid \in UUIDs :
                followup' = Some(toMicrosoftEvent(Get(input), uuid))
    /\ cstep' = "repeated"
    /\ UNCHANGED <<codec, input, payload, parsed, attendeeVars, providerVars,
                   validationVars, tableVars>>

\* an input that differs from the first in the fields the Microsoft
\* serializer does not read is serialized
SerializeVariant ==
    /\ cstep = "serialized"
    /\ codec = "microsoft"
    /\ \E v \in FrameVariants : \E uuid \in UUIDs :
          followup' = Some(toMicrosoftEvent(WithFrame(Get(input), v), uuid))
    /\ cstep' = "varied"
    /\ UNCHANGED <<codec, input, payload, parsed, attendeeVars, providerVars,
                   validationVars, tableVars>>

\* the same provider event is parsed a second time
ParseAgain ==
    /\ cstep = "parsed"
    /\ followup' = Some(IF codec = "google"
                        THEN parseGoogleCalendarEvent(Get(payload))
                        ELSE parseMicrosoftEvent(Get(payload)))
    /\ cstep' = "reparsed"
    /\ UNCHANGED <<codec, input, payload, parsed, attendeeVars, providerVars,
                   validationVars, tableVars>>

\* a parsed CalendarEvent read as the input of an update
AsEventInput(event) ==
    [id |-> "evt-1",
     title |-> Some("Standup"),
     attendees |-> None,
     recurrence |-> None,
     recurringEventId |-> None,
     response |-> None,
     color |-> None,
     start |-> event.start,
     end |-> event.end,
     allDay |-> Some(event.allDay),
     description |-> event.description,
     location |-> event.location,
     conference |-> event.conference,
     metadata |-> Some(event.metadata)]

\* an event fetched from Google is sent back in an update
SerializeParsedGoogle ==
    /\ cstep = "parsed"
    /\ codec = "google"
    /\ input = None
    /\ ~IsError(Get(parsed))
    /\ followup' = Some(toGoogleCalendarEvent(AsEventInput(Get(parsed))))
    /\ cstep' = "reserialized"
    /\ UNCHANGED <<codec, input, payload, parsed, attendeeVars, providerVars,
                   validationVars, tableVars>>

CodecNext ==
    \/ Submit
    \/ SerializeGoogle
    \/ SerializeMicrosoft
    \/ ReceiveGoogle
    \/ ReceiveMicrosoft
    \/ ParseGoogle
    \/ ParseMicrosoft
    \/ SerializeAgain
    \/ SerializeVariant
    \/ ParseAgain
    \/ SerializeParsedGoogle

(***************************************************************************)
(* Google codec: attendees                                                 *)
(***************************************************************************)
parseGoogleCalendarAttendeeStatus(status) ==
    IF status = Some("needsAction") THEN Some("unknown") ELSE status

parseGoogleCalendarAttendeeType(attendee) ==
    IF attendee.resource = Some(TRUE) THEN "resource"
    ELSE IF attendee.optional = Some(TRUE) THEN "optional"
    ELSE "required"

parseGoogleCalendarAttendee(attendee) ==
    [email |-> attendee.email,
     status |-> parseGoogleCalendarAttendeeStatus(attendee.responseStatus),
     type |-> parseGoogleCalendarAttendeeType(attendee),
     organizer |-> attendee.organizer]

\* Array.prototype.findIndex for the predicate "attendee.organizer",
\* 1-based; 0 when no element satisfies it (JavaScript: -1)
FindOrganizerIndex(list) ==
    IF \E i \in 1..Len(list) : list[i].organizer = Some(TRUE)
    THEN CHOOSE i \in 1..Len(list) :
            /\ list[i].organizer = Some(TRUE)
            /\ \A j \in 1..(i - 1) : list[j].organizer # Some(TRUE)
    ELSE 0

\* list.splice(i, 1), 1-based
Splice(list, i) == SubSeq(list, 1, i - 1) \o SubSeq(list, i + 1, Len(list))

\* list.unshift(x)
Unshift(list, x) == <<x>> \o list

\* mutant: the organizer changes places with the first attendee
parseGoogleCalendarAttendeeList_swap(attendees) ==
    LET mappedAttendees ==
            [i \in 1..Len(attendees) |-> parseGoogleCalendarAttendee(attendees[i])]
        organizerIndex == FindOrganizerIndex(mappedAttendees)
    IN  IF organizerIndex > 1
        THEN [mappedAttendees EXCEPT ![1] = mappedAttendees[organizerIndex],
                                     ![organizerIndex] = mappedAttendees[1]]
        ELSE mappedAttendees

parseGoogleCalendarAttendeeList(attendees) ==
    LET mappedAttendees ==
            [i \in 1..Len(attendees) |-> parseGoogleCalendarAttendee(attendees[i])]
        organizerIndex == FindOrganizerIndex(mappedAttendees)
    IN  IF organizerIndex > 1
        THEN Unshift(Splice(mappedAttendees, organizerIndex),
                     mappedAttendees[organizerIndex])
        ELSE mappedAttendees

GoogleAttendees ==
    [email : {"ann@example.com", "bob@example.com", "cat@example.com"},
     responseStatus : {Some("needsAction"), Some("accepted")},
     optional : {None},
     resource : {None},
     organizer : {None, Some(TRUE), Some(FALSE)}]

\* one attendee with every shape of responseStatus / optional / resource:
\* absent, a known value, a value outside the known enum
GoogleAttendeeVariants ==
    [email : {"ann@example.com"},
     responseStatus : {None, Some("needsAction"), Some("accepted"),
                       Some("tentative"), Some("declined"), Some("delegated")},
     optional : {None, Some(TRUE), Some(FALSE)},
     resource : {None, Some(TRUE)},
     organizer : {None}]

toGoogleCalenderResponseStatus(status) ==
    IF status = "unknown" THEN "needsAction" ELSE status

toGoogleCalendarAttendee(attendee) ==
    [email |-> attendee.email,
     optional |-> IF attendee.type = "optional" THEN Some(TRUE) ELSE None,
     resource |-> IF attendee.type = "resource" THEN Some(TRUE) ELSE None,
     responseStatus |-> Some(toGoogleCalenderResponseStatus(attendee.status)),
     organizer |-> None]

toGoogleCalendarAttendees(attendees) ==
    [i \in 1..Len(attendees) |-> toGoogleCalendarAttendee(attendees[i])]

toGoogleCalendarAttendeeResponseStatus(status) ==
    IF status = "unknown" THEN "needsAction" ELSE status

\* attendeeSchema
AttendeeStatuses == {"accepted", "tentative", "declined", "unknown"}

AttendeeTypes == {"required", "optional", "resource"}

CanonicalAttendees ==
    [email : {"ann@example.com"},
     status : AttendeeStatuses,
     type : AttendeeTypes,
     organizer : {None}]

(***************************************************************************)
(* Microsoft attendee lists given to the attendee harness                  *)
(***************************************************************************)
MicrosoftAttendees ==
    [emailAddress : [address : {"ann@example.com", "bob@example.com",
                                "cat@example.com"},
                     name : {None}],
     response : {Some("organizer"), Some("accepted")},
     type : {Some("required")}]

\* one attendee with every shape of status.response and type
MicrosoftAttendeeVariants ==
    [emailAddress : [address : {"ann@example.com"}, name : {None, Some("Ann")}],
     response : {None, Some("none"), Some("notResponded"), Some("organizer"),
                 Some("accepted"), Some("tentativelyAccepted"), Some("declined"),
                 Some("delegated")},
     type : {None, Some("required"), Some("optional"), Some("resource"),
             Some("room")}]

AttendeeInit ==
    /\ astep = "idle"
    /\ acodec = "none"
    /\ canonicalIn = None
    /\ attendeesIn = <<>>
    /\ attendeesOut = <<>>

\* event.attendees of a fetched Google event
GiveAttendees ==
    /\ astep = "idle"
    /\ astep' = "given"
    /\ acodec' = "google"
    /\ \E list \in SeqsUpTo(GoogleAttendees, MaxAttendees)
                      \cup {<<a>> : a \in GoogleAttendeeVariants} :
          attendeesIn' = list
    /\ UNCHANGED <<canonicalIn, attendeesOut, codecVars, providerVars,
                   validationVars, tableVars>>

\* event.attendees of a fetched Microsoft event
GiveMicrosoftAttendees ==
    /\ astep = "idle"
    /\ astep' = "given"
    /\ acodec' = "microsoft"
    /\ \E list \in SeqsUpTo(MicrosoftAttendees, MaxAttendees)
                      \cup {<<a>> : a \in MicrosoftAttendeeVariants} :
          attendeesIn' = list
    /\ UNCHANGED <<canonicalIn, attendeesOut, codecVars, providerVars,
                   validationVars, tableVars>>

\* event.attendees of a validated create / update input
SubmitAttendees ==
    /\ astep = "idle"
    /\ astep' = "input"
    /\ acodec' = "google"
    /\ \E list \in SeqsUpTo(CanonicalAttendees, MaxAttendees) :
          canonicalIn' = Some(list)
    /\ UNCHANGED <<attendeesIn, attendeesOut, codecVars, providerVars,
                   validationVars, tableVars>>

SerializeAttendees ==
    /\ astep = "input"
    /\ astep' = "given"
    /\ attendeesIn' = toGoogleCalendarAttendees(Get(canonicalIn))
    /\ UNCHANGED <<acodec, canonicalIn, attendeesOut, codecVars, providerVars,
                   validationVars, tableVars>>

ParseAttendeeList ==
    /\ astep = "given"
    /\ acodec = "google"
    /\ astep' = "parsed"
    /\ attendeesOut' = parseGoogleCalendarAttendeeList(attendeesIn)
    /\ UNCHANGED <<acodec, canonicalIn, attendeesIn, codecVars, providerVars,
                   validationVars, tableVars>>

ParseMicrosoftAttendeeList ==
    /\ astep = "given"
    /\ acodec = "microsoft"
    /\ astep' = "parsed"
    /\ attendeesOut' = parseMicrosoftAttendeeList(attendeesIn)
    /\ UNCHANGED <<acodec, canonicalIn, attendeesIn, codecVars, providerVars,
                   validationVars, tableVars>>

AttendeeNext ==
    \/ GiveAttendees
    \/ GiveMicrosoftAttendees
    \/ SubmitAttendees
    \/ SerializeAttendees
    \/ ParseAttendeeList
    \/ ParseMicrosoftAttendeeList

(***************************************************************************)
(* MicrosoftCalendarProvider                                               *)
(***************************************************************************)
ResponseStatuses == {"accepted", "tentative", "declined", "unknown"}

\* ResponseToEventInput / UpdateEventInput.response
ResponseInputs ==
    [status : ResponseStatuses,
     comment : {None, Some("see you there")},
     sendUpdate : BOOLEAN]

ResponseEndpoints == {"accept", "tentativelyAccept", "decline"}

\* mutant: tentative is sent to the accept endpoint
eventResponseStatusPath_tentativeAsAccept(status) ==
    IF status = "accepted" THEN [kind |-> "path", value |-> "accept"]
    ELSE IF status = "tentative" THEN [kind |-> "path", value |-> "accept"]
    ELSE IF status = "declined" THEN [kind |-> "path", value |-> "decline"]
    ELSE Throw("Error", "Invalid status")

eventResponseStatusPath(status) ==
    IF status = "accepted" THEN [kind |-> "path", value |-> "accept"]
    ELSE IF status = "tentative" THEN [kind |-> "path", value |-> "tentativelyAccept"]
    ELSE IF status = "declined" THEN [kind |-> "path", value |-> "decline"]
    ELSE Throw("Error", "Invalid status")

\* one graphClient.api(path).<method>(body) call and what became of it
Request(method, path, body) ==
    [method |-> method, path |-> path, body |-> body, outcome |-> "pending"]

IsResponseRequest(r) ==
    /\ r.method = "POST"
    /\ Len(r.path) = 4
    /\ r.path[1] = "me"
    /\ r.path[2] = "events"
    /\ r.path[4] \in ResponseEndpoints

Ok(value) == [kind |-> "ok", value |-> value]

\* the rejection of a request by the Graph client (network / API error)
GraphError == Throw("GraphError", "request failed")

withErrorHandler(operation, outcome) ==
    IF IsError(outcome)
    THEN [kind |-> "ProviderError", operation |-> operation, cause |-> outcome]
    ELSE outcome

\* the operation name each public method hands to withErrorHandler
OperationLabel(method) == IF method = "freeBusy" THEN "getSchedule" ELSE method

\* response.value.map(event => parseMicrosoftEvent(...)): the first throw
\* leaves the map
ParseEvents(batch) ==
    IF \E i \in 1..Len(batch) : IsError(parseMicrosoftEvent(batch[i]))
    THEN parseMicrosoftEvent(batch[
             CHOOSE i \in 1..Len(batch) :
                 /\ IsError(parseMicrosoftEvent(batch[i]))
                 /\ \A j \in 1..(i - 1) : ~IsError(parseMicrosoftEvent(batch[j]))])
    ELSE Ok([i \in 1..Len(batch) |-> parseMicrosoftEvent(batch[i])])

TimedEvent ==
    [subject |-> Some("Standup"),
     body |-> None,
     location |-> None,
     attendees |-> None,
     responseStatus |-> None,
     start |-> Some([dateTime |-> Some(IsoLocal(0)), timeZone |-> Some("UTC")]),
     end |-> Some([dateTime |-> Some(IsoLocal(12)), timeZone |-> Some("UTC")]),
     isAllDay |-> Some(FALSE),
     originalStartTimeZone |-> None,
     originalEndTimeZone |-> None,
     singleValueExtendedProperties |-> None]

AllDayEvent ==
    [subject |-> Some("Standup"),
     body |-> None,
     location |-> None,
     attendees |-> None,
     responseStatus |-> None,
     start |-> Some([dateTime |-> Some(IsoLocal(0)), timeZone |-> Some("UTC")]),
     end |-> Some([dateTime |-> Some(IsoLocal(24)), timeZone |-> Some("UTC")]),
     isAllDay |-> Some(TRUE),
     originalStartTimeZone |-> None,
     originalEndTimeZone |-> None,
     singleValueExtendedProperties |-> None]

\* event resources the Graph API answers with
InvitedEvent ==
    [TimedEvent EXCEPT
        !.attendees =
            Some(<<[emailAddress |-> [address |-> "ann@example.com", name |-> None],
                    response |-> Some("organizer"), type |-> Some("required")],
                   [emailAddress |-> [address |-> "bob@example.com", name |-> None],
                    response |-> Some("accepted"), type |-> Some("required")]>>),
        !.responseStatus = Some([response |-> Some("accepted")])]

ReplyEvents ==
    {TimedEvent, AllDayEvent, InvitedEvent,
     [TimedEvent EXCEPT !.start = None], [AllDayEvent EXCEPT !.end = None]}

\* the update / create input whose payload the main request carries
SampleEventInput ==
    [id |-> "evt-1",
     title |-> Some("Standup"),
     description |-> None,
     location |-> None,
     attendees |-> None,
     conference |-> None,
     recurrence |-> None,
     recurringEventId |-> None,
     response |-> None,
     color |-> None,
     start |-> ZonedDateTime(0, "Europe/Berlin"),
     end |-> ZonedDateTime(12, "Europe/Berlin"),
     allDay |-> Some(FALSE),
     metadata |-> None]

ProviderInit ==
    /\ pc = "idle"
    /\ op = "none"
    /\ arg = None
    /\ requests = <<>>
    /\ reply = <<>>
    /\ result = None
    /\ server = [revision |-> 0, attendance |-> "unset"]
    /\ before = [revision |-> 0, attendance |-> "unset"]
    /\ calls = 0

\* a public method is entered: runs up to its first await
Begin(method, a, issued) ==
    /\ pc = "idle"
    /\ calls < MaxCalls
    /\ op' = method
    /\ arg' = a
    /\ requests' = issued
    /\ reply' = <<>>
    /\ before' = server
    /\ calls' = calls + 1
    /\ UNCHANGED <<server, codecVars, attendeeVars,
                   validationVars, tableVars>>

Await ==
    /\ pc' = "request"
    /\ result' = None

calendars ==
    /\ Begin("calendars", None, <<Request("GET", <<"me", "calendars">>, None)>>)
    /\ Await

createCalendar ==
    /\ Begin("createCalendar", None,
             <<Request("POST", <<"me", "calendars">>, Some("calendarData"))>>)
    /\ Await

updateCalendar ==
    /\ Begin("updateCalendar", None,
             <<Request("PATCH", <<"me", "calendars", "calendarId">>, Some("calendar"))>>)
    /\ Await

deleteCalendar ==
    /\ Begin("deleteCalendar", None,
             <<Request("DELETE", <<"me", "calendars", "calendarId">>, None)>>)
    /\ Await

events ==
    /\ Begin("events", None,
             <<Request("GET", <<"me", "calendars", "calendarId", "events">>, None)>>)
    /\ Await

createEvent ==
    /\ \E v \in FrameVariants : \E uuid \in UUIDs :
          Begin("createEvent", None,
                <<Request("POST", <<"me", "calendars", "calendarId", "events">>,
                          Some(toMicrosoftEvent(WithFrame(SampleEventInput, v),
                                                uuid)))>>)
    /\ Await

updateEvent(response) ==
    /\ \E v \in FrameVariants : \E uuid \in UUIDs :
          Begin("updateEvent", response,
                <<Request("PATCH",
                          <<"me", "calendars", "calendarId", "events", "eventId">>,
                          Some(toMicrosoftEvent(
                                   WithFrame(SampleEventInput,
                                             [v EXCEPT !.response = response]),
                                   uuid)))>>)
    /\ Await

deleteEvent ==
    /\ Begin("deleteEvent", None,
             <<Request("DELETE", <<"me", "calendars", "calendarId", "events", "eventId">>,
                       None)>>)
    /\ Await

\* the POST of an attendance response to its status-specific endpoint
ResponseRequest(response, path) ==
    Request("POST", <<"me", "events", "eventId", path>>,
            Some([comment |-> response.comment, sendResponse |-> response.sendUpdate]))

\* mutant: the status unknown is not filtered before the path is built
responseToEvent_unguarded(response) ==
    LET path == eventResponseStatusPath(response.status)
    IN  IF IsError(path)
        THEN /\ Begin("responseToEvent", Some(response), <<>>)
             /\ pc' = "done"
             /\ result' = Some(withErrorHandler("responseToEvent", path))
        ELSE /\ Begin("responseToEvent", Some(response),
                      <<ResponseRequest(response, path.value)>>)
             /\ pc' = "respond"
             /\ result' = None

responseToEvent(response) ==
    IF response.status = "unknown"
    THEN /\ Begin("responseToEvent", Some(response), <<>>)
         /\ pc' = "done"
         /\ result' = Some(withErrorHandler("responseToEvent", Ok(<<>>)))
    ELSE LET path == eventResponseStatusPath(response.status)
         IN  IF IsError(path)
             THEN /\ Begin("responseToEvent", Some(response), <<>>)
                  /\ pc' = "done"
                  /\ result' = Some(withErrorHandler("responseToEvent", path))
             ELSE /\ Begin("responseToEvent", Some(response),
                           <<ResponseRequest(response, path.value)>>)
                  /\ pc' = "respond"
                  /\ result' = None

freeBusy ==
    /\ Begin("freeBusy", None,
             <<Request("POST", <<"me", "calendar", "getSchedule">>, Some("schedules"))>>)
    /\ Await

Settle(i, outcome) == [requests EXCEPT ![i].outcome = outcome]

\* the awaited main request rejects: the method's closure throws
RequestFails ==
    /\ pc = "request"
    /\ requests' = Settle(1, "failed")
    /\ result' = Some(withErrorHandler(OperationLabel(op), GraphError))
    /\ pc' = "done"
    /\ UNCHANGED <<op, arg, reply, server, before, calls, codecVars, attendeeVars,
                   validationVars, tableVars>>

\* the awaited request of a method that parses no event resolves
RequestSucceeds ==
    /\ pc = "request"
    /\ op \in {"calendars", "createCalendar", "updateCalendar", "deleteCalendar",
                "deleteEvent", "freeBusy"}
    /\ requests' = Settle(1, "ok")
    /\ result' = Some(withErrorHandler(OperationLabel(op), Ok(<<>>)))
    /\ pc' = "done"
    /\ UNCHANGED <<op, arg, reply, server, before, calls, codecVars, attendeeVars,
                   validationVars, tableVars>>

\* events: the GET resolves with a batch, each event of it is parsed
eventsFetched(batch) ==
    /\ pc = "request"
    /\ op = "events"
    /\ requests' = Settle(1, "ok")
    /\ reply' = batch
    /\ result' = Some(withErrorHandler("events", ParseEvents(batch)))
    /\ pc' = "done"
    /\ UNCHANGED <<op, arg, server, before, calls, codecVars, attendeeVars,
                   validationVars, tableVars>>

\* createEvent: the POST resolves with the created event
createEventPosted(ev) ==
    /\ pc = "request"
    /\ op = "createEvent"
    /\ requests' = Settle(1, "ok")
    /\ reply' = <<ev>>
    /\ result' = Some(withErrorHandler("createEvent", ParseEvents(<<ev>>)))
    /\ pc' = "done"
    /\ UNCHANGED <<op, arg, server, before, calls, codecVars, attendeeVars,
                   validationVars, tableVars>>

\* updateEvent: the PATCH resolves with the updated event; then the response
\* status, if present and not unknown, is posted
updateEventPatched(ev) ==
    /\ pc = "request"
    /\ op = "updateEvent"
    /\ server' = [server EXCEPT !.revision = @ + 1]
    /\ reply' = <<ev>>
    /\ IF arg # None /\ Get(arg).status # "unknown"
       THEN LET path == eventResponseStatusPath(Get(arg).status)
            IN  IF IsError(path)
                THEN /\ requests' = Settle(1, "ok")
                     /\ result' = Some(withErrorHandler("updateEvent", path))
                     /\ pc' = "done"
                ELSE /\ requests' = Append(Settle(1, "ok"),
                                           ResponseRequest(Get(arg), path.value))
                     /\ result' = None
                     /\ pc' = "respond"
       ELSE /\ requests' = Settle(1, "ok")
            /\ result' = Some(withErrorHandler("updateEvent", ParseEvents(<<ev>>)))
            /\ pc' = "done"
    /\ UNCHANGED <<op, arg, before, calls, codecVars, attendeeVars,
                   validationVars, tableVars>>

\* mutant: the rejection of the response POST is swallowed
ResponseFails_swallowed ==
    /\ pc = "respond"
    /\ requests' = Settle(Len(requests), "failed")
    /\ result' = IF op = "updateEvent"
                 THEN Some(withErrorHandler("updateEvent", ParseEvents(reply)))
                 ELSE Some(withErrorHandler("responseToEvent", Ok(<<>>)))
    /\ pc' = "done"
    /\ UNCHANGED <<op, arg, reply, server, before, calls, codecVars, attendeeVars,
                   validationVars, tableVars>>

\* the awaited response POST rejects
ResponseFails ==
    /\ pc = "respond"
    /\ requests' = Settle(Len(requests), "failed")
    /\ result' = Some(withErrorHandler(OperationLabel(op), GraphError))
    /\ pc' = "done"
    /\ UNCHANGED <<op, arg, reply, server, before, calls, codecVars, attendeeVars,
                   validationVars, tableVars>>

\* mutant: the status just posted is written into the returned event
ResponseSucceeds_responseMerged ==
    /\ pc = "respond"
    /\ requests' = Settle(Len(requests), "ok")
    /\ server' = [server EXCEPT !.attendance = Get(arg).status]
    /\ result' =
          IF op = "updateEvent"
          THEN LET parsedReply == ParseEvents(reply)
               IN  Some(withErrorHandler(
                       "updateEvent",
                       IF IsError(parsedReply) THEN parsedReply
                       ELSE Ok(<<[parsedReply.value[1] EXCEPT
                                    !.response =
                                        Some([status |-> Get(arg).status])]>>)))
          ELSE Some(withErrorHandler("responseToEvent", Ok(<<>>)))
    /\ pc' = "done"
    /\ UNCHANGED <<op, arg, reply, before, calls, codecVars, attendeeVars,
                   validationVars, tableVars>>

\* the awaited response POST resolves: the provider records the attendance
ResponseSucceeds ==
    /\ pc = "respond"
    /\ requests' = Settle(Len(requests), "ok")
    /\ server' = [server EXCEPT !.attendance = Get(arg).status]
    /\ result' = IF op = "updateEvent"
                 THEN Some(withErrorHandler("updateEvent", ParseEvents(reply)))
                 ELSE Some(withErrorHandler("responseToEvent", Ok(<<>>)))
    /\ pc' = "done"
    /\ UNCHANGED <<op, arg, reply, before, calls, codecVars, attendeeVars,
                   validationVars, tableVars>>

\* the caller receives the settled promise
Return ==
    /\ pc = "done"
    /\ pc' = "idle"
    /\ UNCHANGED <<op, arg, requests, reply, result, server, before, calls, codecVars, attendeeVars,
                   validationVars, tableVars>>

ProviderNext ==
    \/ calendars
    \/ createCalendar
    \/ updateCalendar
    \/ deleteCalendar
    \/ events
    \/ createEvent
    \/ \E r \in {None} \cup {Some(x) : x \in ResponseInputs} : updateEvent(r)
    \/ deleteEvent
    \/ \E r \in ResponseInputs : responseToEvent(r)
    \/ freeBusy
    \/ RequestFails
    \/ RequestSucceeds
    \/ \E batch \in SeqsUpTo(ReplyEvents, MaxBatch) : eventsFetched(batch)
    \/ \E ev \in ReplyEvents : createEventPosted(ev)
    \/ \E ev \in ReplyEvents : updateEventPatched(ev)
    \/ ResponseFails
    \/ ResponseSucceeds
    \/ Return

(***************************************************************************)
(* Input validation: createEventInputSchema / updateEventInputSchema.      *)
(* A metadata object is a record of every key either provider shape may    *)
(* hold; a key that is absent, or that a schema has stripped, is None.     *)
(***************************************************************************)
MicrosoftKeys ==
    {"originalStartTimeZone", "originalEndTimeZone", "onlineMeeting", "blockedTime"}

GoogleKeys ==
    {"conferenceData", "originalRecurrence", "recurringEventId", "private",
     "shared", "blockedTime"}

MetadataKeys == MicrosoftKeys \cup GoogleKeys

ZodError == Throw("ZodError", "Invalid input")

IsZodError(r) == r = ZodError

\* z.object({ before: z.number().int().positive().optional(),
\*            after: z.number().int().positive().optional() }).optional()
ValidBlockedTime(blockedTime) ==
    blockedTime # None =>
        /\ Get(blockedTime).before # None => Get(Get(blockedTime).before) > 0
        /\ Get(blockedTime).after # None => Get(Get(blockedTime).after) > 0

\* z.object(shape) without .strict(): the keys of the shape are validated,
\* every other key of the data is stripped from the output
ZodObject(keys, data) ==
    IF "blockedTime" \in keys /\ ~ValidBlockedTime(data["blockedTime"])
    THEN ZodError
    ELSE [k \in MetadataKeys |-> IF k \in keys THEN data[k] ELSE None]

microsoftMetadataSchema(data) == ZodObject(MicrosoftKeys, data)

googleMetadataSchema(data) == ZodObject(GoogleKeys, data)

\* z.union([microsoftMetadataSchema, googleMetadataSchema]): the output of
\* the first option that accepts the data
MetadataUnion(data) ==
    IF ~IsZodError(microsoftMetadataSchema(data)) THEN microsoftMetadataSchema(data)
    ELSE IF ~IsZodError(googleMetadataSchema(data)) THEN googleMetadataSchema(data)
    ELSE ZodError

\* the response of an update: sendUpdate defaults to false
ResponseSchema(response) ==
    IF response = None THEN None
    ELSE Some([Get(response) EXCEPT
                 !.sendUpdate = IF @ = None THEN Some(FALSE) ELSE @])

\* the create schema has no key response: it is stripped
createEventInputSchema(data) ==
    IF data.metadata = None THEN [data EXCEPT !.response = None]
    ELSE IF IsZodError(MetadataUnion(Get(data.metadata))) THEN ZodError
    ELSE [data EXCEPT !.metadata = Some(MetadataUnion(Get(data.metadata))),
                      !.response = None]

updateEventInputSchema(data) ==
    IF data.metadata = None
    THEN [data EXCEPT !.response = ResponseSchema(data.response)]
    ELSE IF IsZodError(MetadataUnion(Get(data.metadata))) THEN ZodError
    ELSE [data EXCEPT !.metadata = Some(MetadataUnion(Get(data.metadata))),
                      !.response = ResponseSchema(data.response)]

\* blocked-time windows a caller may send, valid or not
UnvalidatedBlockedTimes ==
    {None, Some([before |-> Some(15), after |-> None]),
     Some([before |-> Some(0), after |-> Some(30)])}

\* metadata as the Google codec produces it
GoogleShapedMetadata ==
    [originalStartTimeZone : {None},
     originalEndTimeZone : {None},
     onlineMeeting : {None},
     blockedTime : UnvalidatedBlockedTimes,
     conferenceData : {None, Some([conferenceId |-> Some("conf-1")])},
     originalRecurrence : {None, Some(<<"RRULE:FREQ=WEEKLY">>)},
     recurringEventId : {None, Some("series-1")},
     private : {None, Some([blockedTime |-> "30"])},
     shared : {None, Some([note |-> "shared"])}]

\* metadata as the Microsoft codec produces it
MicrosoftShapedMetadata ==
    [originalStartTimeZone :
         {None, Some([raw |-> "W. Europe Standard Time",
                      parsed |-> Some("Europe/Berlin")])},
     originalEndTimeZone :
         {None, Some([raw |-> "W. Europe Standard Time",
                      parsed |-> Some("Europe/Berlin")])},
     onlineMeeting : {None, Some([conferenceId |-> Some("conf-1"),
                                  joinUrl |-> Some(TeamsUrl)])},
     blockedTime : UnvalidatedBlockedTimes,
     conferenceData : {None},
     originalRecurrence : {None},
     recurringEventId : {None},
     private : {None},
     shared : {None}]

UnvalidatedInputs ==
    [id : {"evt-1"},
     title : {Some("Standup")},
     start : {ZonedDateTime(0, "Europe/Berlin")},
     end : {ZonedDateTime(12, "Europe/Berlin")},
     metadata : {None} \cup {Some(x) : x \in GoogleShapedMetadata}
                    \cup {Some(x) : x \in MicrosoftShapedMetadata},
     response : {None,
                 Some([status |-> "accepted", comment |-> None,
                       sendUpdate |-> None])}]

ValidationInit ==
    /\ vstep = "idle"
    /\ schema = "none"
    /\ unvalidated = None
    /\ validated = None

\* a caller sends an input
GiveInput ==
    /\ vstep = "idle"
    /\ \E data \in UnvalidatedInputs : unvalidated' = Some(data)
    /\ vstep' = "given"
    /\ UNCHANGED <<schema, validated, codecVars, attendeeVars, providerVars,
                   tableVars>>

ValidateCreate ==
    /\ vstep = "given"
    /\ validated' = Some(createEventInputSchema(Get(unvalidated)))
    /\ schema' = "create"
    /\ vstep' = "validated"
    /\ UNCHANGED <<unvalidated, codecVars, attendeeVars, providerVars, tableVars>>

ValidateUpdate ==
    /\ vstep = "given"
    /\ validated' = Some(updateEventInputSchema(Get(unvalidated)))
    /\ schema' = "update"
    /\ vstep' = "validated"
    /\ UNCHANGED <<unvalidated, codecVars, attendeeVars, providerVars, tableVars>>

ValidationNext ==
    \/ GiveInput
    \/ ValidateCreate
    \/ ValidateUpdate

(***************************************************************************)
(* Persisted tables calendar, event, recurrence and attendee, with the     *)
(* primary keys, unique indexes and foreign keys the schema declares.      *)
(* Table account is defined outside this schema: its rows are fixed.       *)
(***************************************************************************)
AccountIds == {"acc-1", "acc-2"}
CalendarIds == {"cal-1", "cal-2"}
EventIds == {"evt-1", "evt-2"}
RecurrenceIds == {"rec-1"}
AttendeeIds == {"att-1", "att-2"}

\* the key columns of a row of each table
CalendarRowValues == [id : CalendarIds, accountId : AccountIds]

EventRowValues ==
    [id : EventIds, calendarId : CalendarIds, accountId : AccountIds,
     recurrenceId : {None} \cup {Some(r) : r \in RecurrenceIds}]

RecurrenceRowValues == [id : RecurrenceIds]

AttendeeRowValues == [id : AttendeeIds, eventId : EventIds]

Accepted == [outcome |-> "ok", constraint |-> "none"]

Rejected(outcome, constraint) == [outcome |-> outcome, constraint |-> constraint]

\* id: text("id").primaryKey()
PrimaryKey(rows, row, constraint) ==
    IF \E r \in rows : r.id = row.id
    THEN Rejected("unique_violation", constraint)
    ELSE Accepted

\* the constraints an inserted event row is checked against: event_pkey,
\* uniqueIndex("event_account_calendar_idx").on(accountId, calendarId), and
\* the references to calendar.id and recurrence.id
EventConstraints(row) ==
    IF \E e \in eventRows : e.id = row.id
    THEN Rejected("unique_violation", "event_pkey")
    ELSE IF \E e \in eventRows :
                e.accountId = row.accountId /\ e.calendarId = row.calendarId
    THEN Rejected("unique_violation", "event_account_calendar_idx")
    ELSE IF ~\E c \in calendarRows : c.id = row.calendarId
    THEN Rejected("foreign_key_violation", "event_calendar_id_calendar_id_fk")
    ELSE IF row.recurrenceId # None
            /\ ~\E r \in recurrenceRows : Some(r.id) = row.recurrenceId
    THEN Rejected("foreign_key_violation", "event_recurrence_id_recurrence_id_fk")
    ELSE Accepted

\* eventId references events.id
AttendeeConstraints(row) ==
    IF \E a \in attendeeRows : a.id = row.id
    THEN Rejected("unique_violation", "attendee_pkey")
    ELSE IF ~\E e \in eventRows : e.id = row.eventId
    THEN Rejected("foreign_key_violation", "attendee_event_id_event_id_fk")
    ELSE Accepted

\* the statement just executed, what became of it, and the number of rows
\* of other tables that its referential actions removed or changed
Statement(verb, table, row, status, cascaded) ==
    [verb |-> verb, table |-> table, row |-> row, outcome |-> status.outcome,
     constraint |-> status.constraint, cascaded |-> cascaded]

TableInit ==
    /\ calendarRows = {}
    /\ eventRows = {}
    /\ recurrenceRows = {}
    /\ attendeeRows = {}
    /\ statement = Statement("none", "none", [id |-> "none"], Accepted, 0)

InsertCalendarRow(row) ==
    LET status == PrimaryKey(calendarRows, row, "calendar_pkey")
    IN  /\ calendarRows' = IF status = Accepted THEN calendarRows \cup {row}
                           ELSE calendarRows
        /\ statement' = Statement("insert", "calendar", row, status, 0)
        /\ UNCHANGED <<eventRows, recurrenceRows, attendeeRows, codecVars,
                       attendeeVars, providerVars, validationVars>>

InsertRecurrenceRow(row) ==
    LET status == PrimaryKey(recurrenceRows, row, "recurrence_pkey")
    IN  /\ recurrenceRows' = IF status = Accepted THEN recurrenceRows \cup {row}
                             ELSE recurrenceRows
        /\ statement' = Statement("insert", "recurrence", row, status, 0)
        /\ UNCHANGED <<calendarRows, eventRows, attendeeRows, codecVars,
                       attendeeVars, providerVars, validationVars>>

InsertEventRow(row) ==
    LET status == EventConstraints(row)
    IN  /\ eventRows' = IF status = Accepted THEN eventRows \cup {row}
                        ELSE eventRows
        /\ statement' = Statement("insert", "event", row, status, 0)
        /\ UNCHANGED <<calendarRows, recurrenceRows, attendeeRows, codecVars,
                       attendeeVars, providerVars, validationVars>>

InsertAttendeeRow(row) ==
    LET status == AttendeeConstraints(row)
    IN  /\ attendeeRows' = IF status = Accepted THEN attendeeRows \cup {row}
                           ELSE attendeeRows
        /\ statement' = Statement("insert", "attendee", row, status, 0)
        /\ UNCHANGED <<calendarRows, eventRows, recurrenceRows, codecVars,
                       attendeeVars, providerVars, validationVars>>

\* the attendee rows whose event is among the given event rows
AttendeesOf(rows) == {a \in attendeeRows : \E e \in rows : e.id = a.eventId}

\* mutant: the delete of a calendar cascades to its events only
DeleteCalendarRow_eventsOnly(id) ==
    LET removed == {e \in eventRows : e.calendarId = id}
    IN  /\ \E c \in calendarRows : c.id = id
        /\ calendarRows' = {c \in calendarRows : c.id # id}
        /\ eventRows' = eventRows \ removed
        /\ statement' = Statement("delete", "calendar", [id |-> id], Accepted,
                                  Cardinality(removed))
        /\ UNCHANGED <<attendeeRows, recurrenceRows, codecVars, attendeeVars,
                       providerVars, validationVars>>

\* events.calendarId: onDelete cascade; attendees.eventId: onDelete cascade
DeleteCalendarRow(id) ==
    LET removed == {e \in eventRows : e.calendarId = id}
    IN  /\ \E c \in calendarRows : c.id = id
        /\ calendarRows' = {c \in calendarRows : c.id # id}
        /\ eventRows' = eventRows \ removed
        /\ attendeeRows' = attendeeRows \ AttendeesOf(removed)
        /\ statement' = Statement("delete", "calendar", [id |-> id], Accepted,
                                  Cardinality(removed)
                                      + Cardinality(AttendeesOf(removed)))
        /\ UNCHANGED <<recurrenceRows, codecVars, attendeeVars, providerVars,
                       validationVars>>

\* attendees.eventId: onDelete cascade
DeleteEventRow(id) ==
    LET removed == {e \in eventRows : e.id = id}
    IN  /\ removed # {}
        /\ eventRows' = eventRows \ removed
        /\ attendeeRows' = attendeeRows \ AttendeesOf(removed)
        /\ statement' = Statement("delete", "event", [id |-> id], Accepted,
                                  Cardinality(AttendeesOf(removed)))
        /\ UNCHANGED <<calendarRows, recurrenceRows, codecVars, attendeeVars,
                       providerVars, validationVars>>

\* events.recurrenceId: onDelete set null
DeleteRecurrenceRow(id) ==
    LET changed == {e \in eventRows : e.recurrenceId = Some(id)}
    IN  /\ \E r \in recurrenceRows : r.id = id
        /\ recurrenceRows' = {r \in recurrenceRows : r.id # id}
        /\ eventRows' = (eventRows \ changed)
                            \cup {[e EXCEPT !.recurrenceId = None] : e \in changed}
        /\ statement' = Statement("delete", "recurrence", [id |-> id], Accepted,
                                  Cardinality(changed))
        /\ UNCHANGED <<calendarRows, attendeeRows, codecVars, attendeeVars,
                       providerVars, validationVars>>

DeleteAttendeeRow(id) ==
    /\ \E a \in attendeeRows : a.id = id
    /\ attendeeRows' = {a \in attendeeRows : a.id # id}
    /\ statement' = Statement("delete", "attendee", [id |-> id], Accepted, 0)
    /\ UNCHANGED <<calendarRows, eventRows, recurrenceRows, codecVars,
                   attendeeVars, providerVars, validationVars>>

TableNext ==
    \/ \E row \in CalendarRowValues : InsertCalendarRow(row)
    \/ \E row \in RecurrenceRowValues : InsertRecurrenceRow(row)
    \/ \E row \in EventRowValues : InsertEventRow(row)
    \/ \E row \in AttendeeRowValues : InsertAttendeeRow(row)
    \/ \E id \in CalendarIds : DeleteCalendarRow(id)
    \/ \E id \in EventIds : DeleteEventRow(id)
    \/ \E id \in RecurrenceIds : DeleteRecurrenceRow(id)
    \/ \E id \in AttendeeIds : DeleteAttendeeRow(id)

(***************************************************************************)
(* Specifications                                                          *)
(***************************************************************************)
Init ==
    ProviderInit /\ CodecInit /\ AttendeeInit /\ ValidationInit /\ TableInit

Next == ProviderNext

\* the provider's operations
Spec == Init /\ [][Next]_vars

NextCodec == CodecNext

\* the two event codecs applied to bounded inputs
SpecCodec == Init /\ [][NextCodec]_vars

NextAttendees == AttendeeNext

\* the attendee normalizer applied to bounded attendee lists
SpecAttendees == Init /\ [][NextAttendees]_vars

NextValidation == ValidationNext

\* the input schemas applied to bounded inputs
SpecValidation == Init /\ [][NextValidation]_vars

NextTables == TableNext

\* statements executed against the persisted tables
SpecTables == Init /\ [][NextTables]_vars

(***************************************************************************)
(* Claims about MicrosoftCalendarProvider (specification Spec)             *)
(***************************************************************************)
ResponseRequests == SelectSeq(requests, IsResponseRequest)

\* the endpoint the Graph API names for an attendance status
EndpointOf(status) ==
    CASE status = "accepted" -> "accept"
      [] status = "tentative" -> "tentativelyAccept"
      [] status = "declined" -> "decline"
      [] OTHER -> "none"

\* the status of the response the current call was given, "absent" when none
GivenStatus == IF arg = None THEN "absent" ELSE Get(arg).status

\* the main PATCH of the current updateEvent call has resolved
Patched == Len(requests) >= 1 /\ requests[1].outcome = "ok"

\* C1: a response of status unknown (or no response) never leads to a request
\* to an accept / tentativelyAccept / decline endpoint, in responseToEvent and
\* in updateEvent alike; a response of status accepted, tentative or declined
\* leads to exactly one POST, to the endpoint of that status, whose body
\* carries the comment and the send-notification flag, as soon as the call
\* reaches that step (at once in responseToEvent, after the PATCH resolved in
\* updateEvent); no other operation posts a response.
C1_ResponseEndpoint ==
    /\ op \notin {"updateEvent", "responseToEvent"} => Len(ResponseRequests) = 0
    /\ op \in {"updateEvent", "responseToEvent"} =>
         /\ GivenStatus \in {"absent", "unknown"} => Len(ResponseRequests) = 0
         /\ GivenStatus \in {"accepted", "tentative", "declined"} =>
              /\ Len(ResponseRequests) <= 1
              /\ (op = "responseToEvent" \/ Patched) => Len(ResponseRequests) = 1
              /\ \A i \in 1..Len(ResponseRequests) :
                    /\ ResponseRequests[i].path[4] = EndpointOf(GivenStatus)
                    /\ ResponseRequests[i].body =
                          Some([comment |-> Get(arg).comment,
                                sendResponse |-> Get(arg).sendUpdate])

\* C1 witness: an updateEvent given a tentative response with a comment has
\* posted it to tentativelyAccept and returned
C1_Witness ==
    /\ op = "updateEvent"
    /\ pc = "done"
    /\ GivenStatus = "tentative"
    /\ Get(arg).comment # None
    /\ Get(result).kind = "ok"
    /\ Len(ResponseRequests) = 1
    /\ ResponseRequests[1].path[4] = "tentativelyAccept"

\* C2: in updateEvent the PATCH is always issued, and has resolved, before the
\* response POST is issued; when the PATCH resolved and the POST is rejected
\* the event stays updated at the provider, the attendance stays as it was,
\* and updateEvent ends in an error; when the PATCH is rejected no response
\* POST is issued.
C2_PatchThenResponse ==
    op = "updateEvent" =>
        /\ Len(requests) >= 1
        /\ requests[1].method = "PATCH"
        /\ ~IsResponseRequest(requests[1])
        /\ \A i \in 1..Len(requests) :
              IsResponseRequest(requests[i]) => i = 2 /\ requests[1].outcome = "ok"
        /\ requests[1].outcome = "failed" =>
              /\ Len(requests) = 1
              /\ pc \in {"done", "idle"}
              /\ server = before
        /\ (Len(requests) = 2 /\ requests[2].outcome = "failed") =>
              /\ server.revision = before.revision + 1
              /\ server.attendance = before.attendance
              /\ result # None
              /\ Get(result).kind = "ProviderError"

\* C2 witness: the PATCH resolved, the response POST was rejected
C2_Witness ==
    /\ op = "updateEvent"
    /\ pc = "done"
    /\ Len(requests) = 2
    /\ requests[1].outcome = "ok"
    /\ requests[2].outcome = "failed"
    /\ server.revision = before.revision + 1
    /\ server.attendance = "unset"

\* the current call failed at some step: a request was rejected or a
\* received event could not be parsed
FailedAtSomeStep ==
    \/ \E i \in 1..Len(requests) : requests[i].outcome = "failed"
    \/ \E i \in 1..Len(reply) : reply[i].start = None \/ reply[i].end = None

\* C3: every public operation that fails at any step raises a ProviderError
\* that wraps the original error and carries the name of the operation that
\* was called; nothing else escapes, and no request is issued twice.
C3_UniformProviderError ==
    pc = "done" =>
        /\ Get(result).kind \in {"ok", "ProviderError"}
        /\ FailedAtSomeStep => Get(result).kind = "ProviderError"
        /\ Get(result).kind = "ProviderError" =>
              /\ Get(result).operation = op
              /\ IsError(Get(result).cause)
        /\ \A i, j \in 1..Len(requests) :
              i # j => <<requests[i].method, requests[i].path>>
                         # <<requests[j].method, requests[j].path>>

WellFormed(ev) == ev.start # None /\ ev.end # None

\* C4: an event without start or end fails its own parse only: when the
\* fetched batch holds such an event, the fetch does not fail and returns the
\* other events of the batch, parsed, in their order.
C4_PerItemFailure ==
    (op = "events" /\ pc = "done" /\ requests[1].outcome = "ok") =>
        /\ \A i \in 1..Len(reply) :
              ~WellFormed(reply[i]) => IsError(parseMicrosoftEvent(reply[i]))
        /\ Get(result).kind = "ok"
        /\ Get(result).value =
              LET kept == SelectSeq(reply, WellFormed)
              IN  [i \in 1..Len(kept) |-> parseMicrosoftEvent(kept[i])]

(***************************************************************************)
(* Claims about the date codecs (specification SpecCodec)                  *)
(***************************************************************************)
\* a canonical input was serialized and the payload parsed back
RoundTripped == cstep = "parsed" /\ input # None

\* start and end of the input are values of one variant
SameVariant == Get(input).start.kind = Get(input).end.kind

\* the input's allDay flag is true exactly for calendar dates
FlagAgrees ==
    (Get(input).allDay = Some(TRUE)) <=> (Get(input).start.kind = "PlainDate")

StartProvenance ==
    IF codec # "microsoft" \/ Get(input).metadata = None THEN None
    ELSE Get(Get(input).metadata).originalStartTimeZone

EndProvenance ==
    IF codec # "microsoft" \/ Get(input).metadata = None THEN None
    ELSE Get(Get(input).metadata).originalEndTimeZone

\* serializing v replaces its zone identifier by the provenance's raw string
Substituted(v, original) ==
    /\ codec = "microsoft"
    /\ v.kind = "ZonedDateTime"
    /\ original # None
    /\ Get(original).parsed = Some(v.timeZoneId)

\* w is a value of v's variant equal to v, but for a substituted zone string
SameValue(v, w, substituted) ==
    /\ w.kind = v.kind
    /\ v.kind = "PlainDate" => w.day = v.day
    /\ v.kind = "Instant" => w.epoch = v.epoch
    /\ v.kind = "ZonedDateTime" =>
          /\ w.epoch = v.epoch
          /\ substituted \/ w.timeZoneId = v.timeZoneId

MicrosoftRoundTrip(v, w, original) ==
    IF v.kind = "Instant" THEN w = ZonedDateTime(v.epoch, "UTC")
    ELSE SameValue(v, w, Substituted(v, original))

Serialized == cstep = "serialized"

\* the date-time string of a serialized start / end object
SerializedString(d) == IF codec = "google" /\ d.date # None THEN d.date ELSE d.dateTime

\* C6 as stated, for one of start / end
NoZoneDate(v, d) ==
    v.kind = "PlainDate" =>
        /\ SerializedString(d) = Some(IsoDate(v.day))
        /\ d.timeZone = None

\* C6 as stated: for each codec a calendar date serializes to a date-only
\* string and the serialized object carries no time-zone field.
C6_CalendarDate_Original ==
    Serialized =>
        /\ NoZoneDate(Get(input).start, Get(Get(payload).start))
        /\ NoZoneDate(Get(input).end, Get(Get(payload).end))

\* C6 amended, for one of start / end
CalendarDateObject(v, d, original) ==
    v.kind = "PlainDate" =>
        IF codec = "google"
        THEN d = [date |-> Some(IsoDate(v.day)), dateTime |-> None, timeZone |-> None]
        ELSE /\ d.dateTime = Some(IsoDate(v.day))
             /\ d.timeZone = IF original # None THEN Some(Get(original).raw)
                              ELSE Some("UTC")

\* C6 amended: a calendar date serializes to a date-only string in both
\* codecs; the Google object carries it in `date` with no dateTime and no
\* timeZone field, the Microsoft object carries it in `dateTime` together with
\* a timeZone field: the provenance's raw zone string when one is given, else
\* "UTC".
C6_CalendarDate ==
    Serialized =>
        /\ CalendarDateObject(Get(input).start, Get(Get(payload).start),
                              StartProvenance)
        /\ CalendarDateObject(Get(input).end, Get(Get(payload).end), EndProvenance)

\* C6 witness: the Microsoft codec serialized a calendar date with a zone
C6_Witness ==
    /\ Serialized
    /\ codec = "microsoft"
    /\ Get(input).start.kind = "PlainDate"
    /\ Get(Get(payload).start).dateTime = Some(IsoDate(Get(input).start.day))
    /\ Get(Get(payload).start).timeZone = Some("UTC")

\* C7 as stated, for one of start / end
NaiveUtc(v, d) ==
    v.kind = "Instant" =>
        /\ d.dateTime = Some(IsoLocal(v.epoch))
        /\ d.timeZone = Some("UTC")

\* C7 as stated: for each codec an instant serializes to the zone-naive
\* date-time string of its projection into UTC, with the time-zone field "UTC".
C7_Instant_Original ==
    Serialized =>
        /\ NaiveUtc(Get(input).start, Get(Get(payload).start))
        /\ NaiveUtc(Get(input).end, Get(Get(payload).end))

\* C7 amended, for one of start / end
InstantObject(v, d) ==
    v.kind = "Instant" =>
        IF codec = "google"
        THEN d = [date |-> None, dateTime |-> Some(IsoUtc(v.epoch)), timeZone |-> None]
        ELSE d = [dateTime |-> Some(IsoLocal(v.epoch)), timeZone |-> Some("UTC")]

\* C7 amended: the Microsoft codec serializes an instant to the zone-naive
\* date-time string of its projection into UTC with the time-zone field "UTC";
\* the Google codec serializes it to the UTC date-time string that carries the
\* Z designator, with no time-zone field.
C7_Instant ==
    Serialized =>
        /\ InstantObject(Get(input).start, Get(Get(payload).start))
        /\ InstantObject(Get(input).end, Get(Get(payload).end))

\* C7 witness: the Google codec serialized an instant
C7_Witness ==
    /\ Serialized
    /\ codec = "google"
    /\ Get(input).start.kind = "Instant"
    /\ Get(Get(payload).start).dateTime = Some(IsoUtc(Get(input).start.epoch))
    /\ Get(Get(payload).start).timeZone = None

\* C8, for one of start / end: the emitted zone and the emitted instant
ProvenanceZone(v, d, original) ==
    v.kind = "ZonedDateTime" =>
        /\ (original # None /\ Get(original).parsed = Some(v.timeZoneId)) =>
              d.timeZone = Some(Get(original).raw)
        /\ (original = None \/ Get(original).parsed # Some(v.timeZoneId)) =>
              d.timeZone = Some(v.timeZoneId)
        /\ d.dateTime # None
        /\ Get(d.dateTime).fmt \in {"utc", "offset"}
        /\ InstantOf(Get(d.dateTime), "UTC") = v.epoch

\* C8: toMicrosoftEvent emits, for a zoned date-time, the provenance's raw
\* zone string when the provenance's parsed identifier equals the value's zone
\* identifier and the value's own zone identifier otherwise (also without
\* provenance); the emitted dateTime denotes the value's instant; start reads
\* the start provenance only and end the end provenance only.
C8_ZoneProvenance ==
    (Serialized /\ codec = "microsoft") =>
        /\ ProvenanceZone(Get(input).start, Get(Get(payload).start), StartProvenance)
        /\ ProvenanceZone(Get(input).end, Get(Get(payload).end), EndProvenance)

\* C8 witness: start and end in one zone, the start provenance matches it and
\* the end provenance does not: start emits the raw string, end the identifier
C8_Witness ==
    /\ Serialized
    /\ codec = "microsoft"
    /\ Get(input).start = ZonedDateTime(0, "Europe/Berlin")
    /\ Get(input).end = ZonedDateTime(12, "Europe/Berlin")
    /\ StartProvenance =
          Some([raw |-> "W. Europe Standard Time", parsed |-> Some("Europe/Berlin")])
    /\ EndProvenance = Some([raw |-> "W. Europe Standard Time", parsed |-> Some("UTC")])
    /\ Get(Get(payload).start).timeZone = Some("W. Europe Standard Time")
    /\ Get(Get(payload).end).timeZone = Some("Europe/Berlin")

\* C9: in every event a codec's parse returns, allDay is true exactly when
\* start and end are both calendar dates, and false exactly when both are
\* instants or zoned date-times.
C9_AllDayIffDates ==
    (cstep = "parsed" /\ ~IsError(Get(parsed))) =>
        LET e == Get(parsed)
        IN  /\ e.allDay <=> (e.start.kind = "PlainDate" /\ e.end.kind = "PlainDate")
            /\ ~e.allDay <=> (e.start.kind \in {"Instant", "ZonedDateTime"}
                                /\ e.end.kind \in {"Instant", "ZonedDateTime"})

\* C9 witness: a received Google event with date-only start and end was parsed
C9_Witness ==
    /\ cstep = "parsed"
    /\ codec = "google"
    /\ input = None
    /\ ~IsError(Get(parsed))
    /\ Get(parsed).allDay
    /\ Get(parsed).start.kind = "PlainDate"
    /\ Get(parsed).end.kind = "PlainDate"

(***************************************************************************)
(* Claims about the attendee normalizer (specification SpecAttendees)      *)
(***************************************************************************)
\* the organizer-flagged attendee of the list stands at index k (1-based)
OrganizerAt(list, k) ==
    /\ k \in 1..Len(list)
    /\ list[k].organizer = Some(TRUE)
    /\ \A j \in 1..(k - 1) : list[j].organizer # Some(TRUE)

\* C10: when the organizer-flagged attendee of a Google attendee list stands
\* at an index after the first, parseGoogleCalendarAttendeeList returns a list
\* of the same length with that attendee first and every other attendee in
\* its original relative order.
C10_OrganizerFirst ==
    (astep = "parsed" /\ acodec = "google") =>
        \A k \in 2..Len(attendeesIn) :
            OrganizerAt(attendeesIn, k) =>
                /\ Len(attendeesOut) = Len(attendeesIn)
                /\ attendeesOut[1] = parseGoogleCalendarAttendee(attendeesIn[k])
                /\ \A i \in 1..(k - 1) :
                      attendeesOut[i + 1] = parseGoogleCalendarAttendee(attendeesIn[i])
                /\ \A i \in (k + 1)..Len(attendeesIn) :
                      attendeesOut[i] = parseGoogleCalendarAttendee(attendeesIn[i])

\* C10 witness: the organizer stood last among three distinct attendees
C10_Witness ==
    /\ astep = "parsed"
    /\ acodec = "google"
    /\ Len(attendeesIn) = 3
    /\ OrganizerAt(attendeesIn, 3)
    /\ attendeesIn[1].email # attendeesIn[2].email
    /\ attendeesOut[1].email = attendeesIn[3].email
    /\ attendeesOut[2].email = attendeesIn[1].email
    /\ attendeesOut[3].email = attendeesIn[2].email

\* the attendee whose response is "organizer" stands at index k (1-based)
MicrosoftOrganizerAt(list, k) ==
    /\ k \in 1..Len(list)
    /\ list[k].response = Some("organizer")
    /\ \A j \in 1..(k - 1) : list[j].response # Some("organizer")

\* C11: when the attendee list of a Microsoft event contains the organizer,
\* the canonical attendee list has the organizer at position 0 and every
\* other attendee in its original relative order.
C11_OrganizerFirst ==
    (astep = "parsed" /\ acodec = "microsoft") =>
        \A k \in 1..Len(attendeesIn) :
            MicrosoftOrganizerAt(attendeesIn, k) =>
                /\ Len(attendeesOut) = Len(attendeesIn)
                /\ attendeesOut[1] = parseMicrosoftAttendee(attendeesIn[k])
                /\ \A i \in 1..(k - 1) :
                      attendeesOut[i + 1] = parseMicrosoftAttendee(attendeesIn[i])
                /\ \A i \in (k + 1)..Len(attendeesIn) :
                      attendeesOut[i] = parseMicrosoftAttendee(attendeesIn[i])

\* the parse kept every attendee at the index it had in the provider list
KeptInPlace ==
    /\ Len(attendeesOut) = Len(attendeesIn)
    /\ acodec = "google" => FindOrganizerIndex(attendeesIn) <= 1

\* C12: canonical unknown serializes to Google needsAction and needsAction
\* parses to unknown; accepted, tentative and declined come back unchanged
\* from the Google serialize-then-parse mapping; Microsoft notResponded and
\* none parse to unknown and Microsoft organizer parses to accepted.
C12_StatusMapping ==
    /\ astep \in {"input", "given", "parsed"} /\ canonicalIn # None =>
          \A i \in 1..Len(Get(canonicalIn)) :
              LET status == Get(canonicalIn)[i].status
                  wire == toGoogleCalendarAttendeeResponseStatus(status)
              IN  /\ status = "unknown" <=> wire = "needsAction"
                  /\ parseGoogleCalendarAttendeeStatus(Some(wire)) = Some(status)
    /\ astep \in {"given", "parsed"} /\ canonicalIn # None =>
          /\ Len(attendeesIn) = Len(Get(canonicalIn))
          /\ \A i \in 1..Len(attendeesIn) :
                Get(canonicalIn)[i].status = "unknown"
                    <=> attendeesIn[i].responseStatus = Some("needsAction")
    /\ astep = "parsed" /\ canonicalIn # None =>
          /\ Len(attendeesOut) = Len(Get(canonicalIn))
          /\ \A i \in 1..Len(attendeesOut) :
                attendeesOut[i].status = Some(Get(canonicalIn)[i].status)
    /\ astep = "parsed" /\ acodec = "google" /\ KeptInPlace =>
          \A i \in 1..Len(attendeesIn) :
              attendeesIn[i].responseStatus = Some("needsAction")
                  => attendeesOut[i].status = Some("unknown")
    /\ astep = "parsed" /\ acodec = "microsoft" =>
          /\ KeptInPlace
          /\ \A i \in 1..Len(attendeesIn) :
                /\ attendeesIn[i].response \in {Some("notResponded"), Some("none")}
                      => attendeesOut[i].status = "unknown"
                /\ attendeesIn[i].response = Some("organizer")
                      => attendeesOut[i].status = "accepted"

\* C12 witness: a Microsoft organizer entry was parsed to accepted
C12_Witness ==
    /\ astep = "parsed"
    /\ acodec = "microsoft"
    /\ Len(attendeesIn) = 2
    /\ attendeesIn[2].response = Some("organizer")
    /\ attendeesOut[2].status = "accepted"

\* C13: whatever the response-status and type values of a provider attendee
\* are (absent and out-of-enum values included), the attendee parse of either
\* codec yields a status in {accepted, tentative, declined, unknown} and a
\* type in {required, optional, resource}.
C13_SafeDefault ==
    astep = "parsed" =>
        \A i \in 1..Len(attendeesOut) :
            IF acodec = "google"
            THEN /\ \E st \in AttendeeStatuses : attendeesOut[i].status = Some(st)
                 /\ attendeesOut[i].type \in AttendeeTypes
            ELSE /\ attendeesOut[i].status \in AttendeeStatuses
                 /\ \E ty \in AttendeeTypes : attendeesOut[i].type = Some(ty)

(***************************************************************************)
(* Claims about blocked time, conference data and repeated calls           *)
(* (specification SpecCodec)                                               *)
(***************************************************************************)
\* a provider event was received and parsed
ReceivedAndParsed == cstep = "parsed" /\ input = None

\* the string the codec reads the blocked-time window from: Google reads
\* private.blockedTime, or shared.blockedTime when the former is absent or
\* empty; Microsoft reads the first property whose id names blockedTime
StoredBlockedTime ==
    LET event == Get(payload)
    IN  IF codec = "google"
        THEN IF event.extendedProperties = None THEN None
             ELSE LET ep == Get(event.extendedProperties)
                      private == IF ep.private = None THEN None
                                 ELSE Get(ep.private).blockedTime
                      shared == IF ep.shared = None THEN None
                                ELSE Get(ep.shared).blockedTime
                  IN  IF private # None /\ Get(private).json # "empty"
                      THEN private ELSE shared
        ELSE IF event.singleValueExtendedProperties = None THEN None
             ELSE LET props == Get(event.singleValueExtendedProperties)
                      named == {i \in 1..Len(props) :
                                   props[i].id # None
                                   /\ Get(props[i].id).name = "blockedTime"}
                  IN  IF named = {} THEN None
                      ELSE props[CHOOSE i \in named : \A j \in named : i <= j].value

\* the member of the stored JSON is a number greater than zero
Admissible(member) ==
    /\ member # None
    /\ Get(member).type = "number"
    /\ Get(member).value > 0

\* the members before and after of the stored JSON, when it is an object
BeforeOf ==
    IF StoredBlockedTime = None \/ Get(StoredBlockedTime).json # "object" THEN None
    ELSE Get(StoredBlockedTime).before

AfterOf ==
    IF StoredBlockedTime = None \/ Get(StoredBlockedTime).json # "object" THEN None
    ELSE Get(StoredBlockedTime).after

\* the received event without its extended properties
WithoutProperties ==
    IF codec = "google"
    THEN parseGoogleCalendarEvent([Get(payload) EXCEPT !.extendedProperties = None])
    ELSE parseMicrosoftEvent(
             [Get(payload) EXCEPT !.singleValueExtendedProperties = None])

\* C14: in both codecs the parsed metadata.blockedTime holds before exactly
\* when the stored JSON has a numeric before > 0 (with that value) and after
\* exactly when it has a numeric after > 0; with no admissible member, or a
\* malformed stored value, metadata has no blockedTime at all (never an empty
\* object); the stored value never makes the event parse fail.
C14_BlockedTimeValidation ==
    ReceivedAndParsed =>
        /\ IsError(Get(parsed)) <=> IsError(WithoutProperties)
        /\ ~IsError(Get(parsed)) =>
              LET blockedTime == Get(parsed).metadata.blockedTime
              IN  /\ blockedTime # None
                        <=> (Admissible(BeforeOf) \/ Admissible(AfterOf))
                  /\ blockedTime # None =>
                        /\ Get(blockedTime).before # None <=> Admissible(BeforeOf)
                        /\ Get(blockedTime).after # None <=> Admissible(AfterOf)
                        /\ Admissible(BeforeOf) =>
                              Get(blockedTime).before = Some(Get(BeforeOf).value)
                        /\ Admissible(AfterOf) =>
                              Get(blockedTime).after = Some(Get(AfterOf).value)

\* C14 witness: the stored window {before: -1, after: 15} of a Microsoft
\* event was parsed to {after: 15}
C14_Witness ==
    /\ ReceivedAndParsed
    /\ codec = "microsoft"
    /\ StoredBlockedTime
          = Some(JsonText("object", Some(JsonNumber(-1)), Some(JsonNumber(15))))
    /\ ~IsError(Get(parsed))
    /\ Get(parsed).metadata.blockedTime = Some([before |-> None, after |-> Some(15)])

\* the URLs the fallback examines, in the order it examines them
FallbackCandidates(event) ==
    (IF event.hangoutLink = None THEN <<>> ELSE <<Get(event.hangoutLink)>>)
    \o (IF event.description = None THEN <<>>
        ELSE extractUrls(Get(event.description)))
    \o (IF event.location = None THEN <<>> ELSE extractUrls(Get(event.location)))
    \o (IF event.source = None \/ Get(event.source).url = None THEN <<>>
        ELSE <<Get(Get(event.source).url)>>)
    \o (IF event.attachments = None THEN <<>>
        ELSE FileUrls(Get(event.attachments)))
    \o (IF event.gadget = None \/ Get(event.gadget).link = None THEN <<>>
        ELSE <<Get(Get(event.gadget).link)>>)

\* the conference is the one detected from url
DetectedFrom(conference, url) ==
    /\ conference # None
    /\ detectMeetingLink(url) # None
    /\ Get(conference).id = Some(Get(detectMeetingLink(url)).id)
    /\ Get(conference).name = Some(Get(detectMeetingLink(url)).name)
    /\ Get(conference).video # None
    /\ Get(Get(conference).video).joinUrl.value = Get(detectMeetingLink(url)).joinUrl

\* C15: when the fallback scan runs, the conference is the one detected from
\* the first URL, in the order hangoutLink, description, location, source.url,
\* attachment file URLs, gadget.link, that resolves to a known meeting
\* provider; no later URL changes the result, and there is no conference when
\* no URL resolves.
C15_FallbackPriority ==
    (ReceivedAndParsed /\ codec = "google" /\ ~IsError(Get(parsed))
        /\ NoEntryPoints(Get(payload))) =>
        LET urls == FallbackCandidates(Get(payload))
            resolving == {i \in 1..Len(urls) : detectMeetingLink(urls[i]) # None}
        IN  IF resolving = {} THEN Get(parsed).conference = None
            ELSE DetectedFrom(Get(parsed).conference,
                              urls[CHOOSE i \in resolving : \A j \in resolving : i <= j])

\* C15 witness: the hangout link resolved to Google Meet although the
\* description holds a Zoom link before a Meet link and the location a
\* Zoom link
C15_Witness ==
    /\ ReceivedAndParsed
    /\ codec = "google"
    /\ Get(payload).conferenceData = None
    /\ Get(payload).hangoutLink = Some(MeetUrl)
    /\ Get(payload).description
          = Some(<<"See", OtherUrl, "or", ZoomUrl, "or", MeetUrl>>)
    /\ Get(payload).location = Some(<<ZoomUrl, TeamsUrl>>)
    /\ ~IsError(Get(parsed))
    /\ Get(Get(parsed).conference).id = Some("google-meet")

\* start / end of a Google event carries a date and nothing else
DateOnly(d) ==
    /\ d # None
    /\ Get(d).date # None
    /\ Get(d).dateTime = None
    /\ Get(d).timeZone = None

\* C16: a Google event whose start and end carry only a date parses to
\* allDay = true with calendar dates as start and end, and serializing that
\* event with toGoogleCalendarEvent gives start and end objects with a date
\* field and neither dateTime nor timeZone.
C16_GoogleAllDayEndToEnd ==
    (codec = "google" /\ input = None /\ payload # None
        /\ cstep \in {"parsed", "reparsed", "reserialized"}
        /\ DateOnly(Get(payload).start) /\ DateOnly(Get(payload).end)) =>
        /\ ~IsError(Get(parsed))
        /\ Get(parsed).allDay
        /\ Get(parsed).start.kind = "PlainDate"
        /\ Get(parsed).end.kind = "PlainDate"
        /\ cstep = "reserialized" =>
              /\ DateOnly(Get(followup).start)
              /\ DateOnly(Get(followup).end)
              /\ Get(Get(followup).start).date = Get(Get(payload).start).date
              /\ Get(Get(followup).end).date = Get(Get(payload).end).date

\* C16 witness: an all-day Google event was parsed and serialized again
C16_Witness ==
    /\ cstep = "reserialized"
    /\ codec = "google"
    /\ DateOnly(Get(payload).start)
    /\ Get(Get(payload).start).date = Some(IsoDate(0))
    /\ Get(Get(payload).end).date = Some(IsoDate(1))
    /\ Get(parsed).allDay
    /\ DateOnly(Get(followup).start)
    /\ Get(Get(followup).end).date = Some(IsoDate(1))

WithoutMarker(event) ==
    IF event.singleValueExtendedProperties = None THEN event
    ELSE LET props == Get(event.singleValueExtendedProperties)
         IN  [event EXCEPT !.singleValueExtendedProperties =
                 Some([i \in 1..Len(props) |->
                         IF props[i].id = None THEN props[i]
                         ELSE [props[i] EXCEPT !.id =
                                  Some([Get(props[i].id) EXCEPT !.marker = ""])]])]

\* the input carries a blocked-time window
HasBlockedTime ==
    /\ input # None
    /\ Get(input).metadata # None
    /\ Get(Get(input).metadata).blockedTime # None

InputBlockedTime ==
    IF Get(input).metadata = None THEN None
    ELSE Get(Get(input).metadata).blockedTime

\* the window has at least one (positive) field
NonEmptyWindow(w) == w # None /\ (Get(w).before # None \/ Get(w).after # None)

\* the JSON text spells the window
Spells(text, w) ==
    /\ text.json = "object"
    /\ text.before = (IF w.before = None THEN None
                      ELSE Some(JsonNumber(Get(w.before))))
    /\ text.after = (IF w.after = None THEN None
                     ELSE Some(JsonNumber(Get(w.after))))

\* the payload carries the window as the provider's extended property
EncodesWindow(event, w) ==
    IF codec = "google"
    THEN /\ event.extendedProperties # None
         /\ Get(event.extendedProperties).private # None
         /\ Get(Get(event.extendedProperties).private).blockedTime # None
         /\ Spells(Get(Get(Get(event.extendedProperties).private).blockedTime), w)
    ELSE /\ event.singleValueExtendedProperties # None
         /\ Len(Get(event.singleValueExtendedProperties)) = 1
         /\ LET prop == Get(event.singleValueExtendedProperties)[1]
            IN  /\ prop.id # None
                /\ Get(prop.id).name = "blockedTime"
                /\ Get(prop.id).marker \in UUIDs
                /\ prop.value # None
                /\ Spells(Get(prop.value), w)

NoExtendedProperty(event) ==
    IF codec = "google" THEN event.extendedProperties = None
    ELSE event.singleValueExtendedProperties = None

\* C18: in both codecs a blocked-time window of the input with at least one
\* field is serialized as the provider's extended property (Google:
\* extendedProperties.private.blockedTime; Microsoft: one single-value extended
\* property whose id ends in "Name blockedTime"), parsing that payload gives
\* metadata.blockedTime equal to the window, and an input without a window is
\* serialized without extended property.
C18_BlockedTimeRoundTrip ==
    (input # None /\ cstep \in {"serialized", "parsed"}) =>
        /\ InputBlockedTime = None => NoExtendedProperty(Get(payload))
        /\ NonEmptyWindow(InputBlockedTime) =>
              /\ EncodesWindow(Get(payload), Get(InputBlockedTime))
              /\ cstep = "parsed" =>
                    /\ ~IsError(Get(parsed))
                    /\ Get(parsed).metadata.blockedTime = InputBlockedTime

\* C18 witness: the window {before: 15, after: 30} went through the Microsoft
\* codec and came back
C18_Witness ==
    /\ cstep = "parsed"
    /\ codec = "microsoft"
    /\ input # None
    /\ InputBlockedTime = Some([before |-> Some(15), after |-> Some(30)])
    /\ Get(Get(Get(payload).singleValueExtendedProperties)[1].id).name = "blockedTime"
    /\ Get(parsed).metadata.blockedTime = InputBlockedTime

\* the received event without the fields the fallback scans
WithoutFallbackFields ==
    [Get(payload) EXCEPT !.hangoutLink = None, !.description = None,
                         !.location = None, !.source = None,
                         !.attachments = None, !.gadget = None]

\* C19: whenever a Google event carries a conferenceData object, the parsed
\* conference is derived from it alone: hangoutLink, description, location,
\* source, attachments and gadget have no influence on it.
C19_NativeOnly ==
    (ReceivedAndParsed /\ codec = "google" /\ ~IsError(Get(parsed))
        /\ Get(payload).conferenceData # None) =>
        Get(parsed).conference
            = parseGoogleCalendarConferenceData(WithoutFallbackFields)

\* C20: the conference of a parsed Google event is absent or has at least
\* one of video, sip and phone.
C20_NeverEmpty ==
    (cstep = "parsed" /\ codec = "google" /\ ~IsError(Get(parsed))
        /\ Get(parsed).conference # None) =>
        \/ Get(Get(parsed).conference).video # None
        \/ Get(Get(parsed).conference).sip # None
        \/ Get(Get(parsed).conference).phone # None

(***************************************************************************)
(* Claims about conference extraction and serialization, the Microsoft own *)
(* response and the Microsoft payload                                      *)
(***************************************************************************)
\* the entry points of the received Google event
ReceivedEntryPoints == Get(Get(Get(payload).conferenceData).entryPoints)

\* the canonical entry has the uri, label, meetingCode, accessCode and
\* password of the provider entry point
CopiedFrom(entry, entryPoint) ==
    /\ Some(entry.joinUrl.value) = entryPoint.uri
    /\ entry.joinUrl.label = entryPoint.label
    /\ entry.meetingCode = entryPoint.meetingCode
    /\ entry.accessCode = entryPoint.accessCode
    /\ entry.password = entryPoint.password

\* the single entry of a type is taken from the first entry point of that
\* type, and only when that one has a uri
FirstOfType(entry, type) ==
    LET eps == ReceivedEntryPoints
        OfType == {i \in 1..Len(eps) : eps[i].entryPointType = Some(type)}
    IN  IF OfType = {} THEN entry = None
        ELSE LET k == CHOOSE i \in OfType : \A j \in OfType : i <= j
             IN  IF eps[k].uri = None THEN entry = None
                 ELSE entry # None /\ CopiedFrom(Get(entry), eps[k])

\* the phone list holds, in order, the phone entry points that have a uri
PhonesInOrder(phone) ==
    LET eps == ReceivedEntryPoints
        Phones == {i \in 1..Len(eps) :
                     eps[i].entryPointType = Some("phone") /\ eps[i].uri # None}
        listed == IF phone = None THEN <<>> ELSE Get(phone)
    IN  /\ Len(listed) = Cardinality(Phones)
        /\ phone # None <=> Phones # {}
        /\ \A i \in Phones :
              CopiedFrom(listed[Cardinality({j \in Phones : j <= i})], eps[i])

\* C21: from a non-empty entryPoints list the parsed conference has at most
\* one video entry (the first entry point of type video, if it has a uri),
\* at most one sip entry (the first of type sip, if it has a uri) and a phone
\* list that is the in-order sub-list of the phone entry points with a uri;
\* every entry copies uri, label, meetingCode, accessCode and password.
C21_NativeExtraction ==
    (ReceivedAndParsed /\ codec = "google" /\ ~IsError(Get(parsed))
        /\ ~NoEntryPoints(Get(payload))) =>
        /\ Get(parsed).conference # None
        /\ FirstOfType(Get(Get(parsed).conference).video, "video")
        /\ FirstOfType(Get(Get(parsed).conference).sip, "sip")
        /\ PhonesInOrder(Get(Get(parsed).conference).phone)

\* two video entry points, the first one is taken; the phone list is absent
C21_Witness ==
    /\ ReceivedAndParsed
    /\ codec = "google"
    /\ ~IsError(Get(parsed))
    /\ ~NoEntryPoints(Get(payload))
    /\ Len(ReceivedEntryPoints) = 2
    /\ ReceivedEntryPoints[1].entryPointType = Some("video")
    /\ ReceivedEntryPoints[1].uri = Some(OtherUrl)
    /\ ReceivedEntryPoints[2].entryPointType = Some("video")
    /\ ReceivedEntryPoints[2].uri = Some(MeetUrl)
    /\ Get(Get(Get(parsed).conference).video).joinUrl.value = OtherUrl
    /\ Get(Get(Get(parsed).conference).video).password = Some("s3cret")
    /\ Get(Get(parsed).conference).phone = None

\* a canonical input with a conference was serialized for Google
SerializedConference ==
    /\ cstep = "serialized"
    /\ codec = "google"
    /\ Get(input).conference # None

InputConference == Get(Get(input).conference)

\* the entry points of the serialized payload
EmittedEntryPoints ==
    LET entryPoints == Get(Get(payload).conferenceData).entryPoints
    IN  IF entryPoints = None THEN <<>> ELSE Get(entryPoints)

InputPhones ==
    IF InputConference.phone = None THEN <<>> ELSE Get(InputConference.phone)

\* video first, then sip, then the phone entries in their list order
EmittedInOrder ==
    LET eps == EmittedEntryPoints
        v == IF InputConference.video = None THEN 0 ELSE 1
        s == IF InputConference.sip = None THEN 0 ELSE 1
    IN  /\ Len(eps) = v + s + Len(InputPhones)
        /\ v = 1 => /\ eps[1].entryPointType = Some("video")
                    /\ eps[1].uri = Some(Get(InputConference.video).joinUrl.value)
        /\ s = 1 => /\ eps[v + 1].entryPointType = Some("sip")
                    /\ eps[v + 1].uri = Some(Get(InputConference.sip).joinUrl.value)
        /\ \A i \in 1..Len(InputPhones) :
              /\ eps[v + s + i].entryPointType = Some("phone")
              /\ eps[v + s + i].accessCode = InputPhones[i].accessCode
              /\ eps[v + s + i].uri
                    \in {Some(InputPhones[i].joinUrl.value),
                         Some(PrefixTel(InputPhones[i].joinUrl.value))}

\* every phone uri has the tel: prefix once
PhonesPrefixedOnce ==
    \A i \in 1..Len(EmittedEntryPoints) :
        EmittedEntryPoints[i].entryPointType = Some("phone") =>
            EmittedEntryPoints[i].uri = Some("tel:+15550100")

EmittedSolution == Get(Get(Get(payload).conferenceData).conferenceSolution)

\* the names that mention google in some letter case
GoogleNames == {"Google Meet", "GOOGLE Hangouts"}

SolutionNamed ==
    EmittedSolution.name
        = (IF InputConference.name = None THEN Some("Google Meet")
           ELSE InputConference.name)

SolutionTyped ==
    Get(EmittedSolution.key).type
        = (IF InputConference.name = None
              \/ Get(InputConference.name) \in GoogleNames
           THEN "hangoutsMeet" ELSE "addOn")

\* C22: the Google payload lists the entry points in the order video, sip,
\* phone entries in list order; every phone uri starts with one tel: prefix;
\* the solution name is the conference name, or Google Meet when none is
\* set; the solution type is hangoutsMeet when the name is absent or
\* mentions google in any letter case and addOn otherwise; every payload has
\* conferenceDataVersion 1.
C22_ConferenceSerialization ==
    /\ (cstep = "serialized" /\ codec = "google") =>
            Get(payload).conferenceDataVersion = 1
    /\ SerializedConference =>
        /\ EmittedInOrder
        /\ PhonesPrefixedOnce
        /\ SolutionNamed
        /\ SolutionTyped

\* the attendees of the received Microsoft event; none when the field is absent
ReceivedAttendees ==
    IF Get(payload).attendees = None THEN <<>> ELSE Get(Get(payload).attendees)

OrganizerAmongAttendees ==
    \E i \in 1..Len(ReceivedAttendees) :
        ReceivedAttendees[i].response = Some("organizer")

\* C23: a parsed Microsoft event has a response only if some attendee has
\* the response status organizer and the attendee list has at least two
\* entries; with no attendees, a lone organizer, or no organizer among the
\* attendees the response is omitted whatever the event's responseStatus is.
C23_OwnResponse ==
    (ReceivedAndParsed /\ codec = "microsoft" /\ ~IsError(Get(parsed))) =>
        (Get(parsed).response # None =>
            OrganizerAmongAttendees /\ Len(ReceivedAttendees) >= 2)

\* an organizer and one more attendee: the own response is reported
C23_Witness ==
    /\ ReceivedAndParsed
    /\ codec = "microsoft"
    /\ ~IsError(Get(parsed))
    /\ Len(ReceivedAttendees) = 2
    /\ ReceivedAttendees[1].response = Some("accepted")
    /\ ReceivedAttendees[2].response = Some("organizer")
    /\ Get(payload).responseStatus = Some([response |-> Some("declined")])
    /\ Get(parsed).response = Some([status |-> "declined"])

(***************************************************************************)
(* Claims about the response status and the returned event                 *)
(* (specification Spec)                                                    *)
(***************************************************************************)
InvalidStatus == Throw("Error", "Invalid status")

\* C24: the Invalid status error of eventResponseStatusPath cannot be
\* reached through the provider: whatever status of accepted, tentative,
\* declined and unknown updateEvent or responseToEvent is given, a response
\* request is only built for accepted, tentative or declined and no call
\* fails with Invalid status.
C24_InvalidStatusUnreachable ==
    /\ result # None /\ Get(result).kind = "ProviderError" =>
          Get(result).cause # InvalidStatus
    /\ \A i \in 1..Len(requests) :
          IsResponseRequest(requests[i]) =>
              /\ arg # None
              /\ Get(arg).status \in {"accepted", "tentative", "declined"}
              /\ ~IsError(eventResponseStatusPath(Get(arg).status))

\* both methods were given the status unknown and returned without a
\* response request and without an error
C24_Witness ==
    /\ op \in {"updateEvent", "responseToEvent"}
    /\ arg # None
    /\ Get(arg).status = "unknown"
    /\ pc = "done"
    /\ Get(result).kind = "ok"
    /\ \A i \in 1..Len(requests) : ~IsResponseRequest(requests[i])

\* the last request, the response POST while pc = "respond", resolves
ResponsePostResolves ==
    /\ op = "updateEvent"
    /\ pc = "respond"
    /\ requests'[Len(requests')].outcome = "ok"

\* C25: the CalendarEvent updateEvent returns is computed only from the
\* reply of the main PATCH, which is received before the response POST is
\* issued; when the POST succeeds its outcome has no influence on the
\* returned event.
C25_ReturnedFromPatchReply ==
    [][/\ (op = "updateEvent" /\ pc = "respond") =>
            /\ Len(reply) = 1
            /\ requests[1].outcome = "ok"
            /\ reply' = reply
       /\ ResponsePostResolves =>
            /\ result' # None
            /\ Get(result').kind = "ok" =>
                  Get(result').value = <<parseMicrosoftEvent(reply[1])>>
            /\ Get(result').kind # "ok" =>
                  IsError(parseMicrosoftEvent(reply[1]))]_vars

\* the PATCH reply says accepted, the POST that declined succeeded, and the
\* returned event still says accepted
C25_Witness ==
    /\ op = "updateEvent"
    /\ pc = "done"
    /\ Len(requests) = 2
    /\ requests[2].outcome = "ok"
    /\ Get(arg).status = "declined"
    /\ server.attendance = "declined"
    /\ reply = <<InvitedEvent>>
    /\ Get(result).kind = "ok"
    /\ Get(result).value[1].response = Some([status |-> "accepted"])

(***************************************************************************)
(* Claims about the Microsoft payload (specification SpecCodec)            *)
(***************************************************************************)
\* a canonical input was serialized for Microsoft
SerializedMicrosoft == cstep = "serialized" /\ codec = "microsoft"

IsCalendarDate(value) == value.kind = "PlainDate"

\* C26: in every payload of toMicrosoftEvent isAllDay is true exactly when
\* the input's start and end are calendar dates.
C26_AllDayAgreesWithDates ==
    SerializedMicrosoft =>
        (Get(payload).isAllDay = Some(TRUE)
            <=> (IsCalendarDate(Get(input).start) /\ IsCalendarDate(Get(input).end)))

\* C27: the Microsoft payload depends only on title, description, start,
\* end, allDay, location and metadata: an input that differs only in
\* attendees, conference, recurrence, recurringEventId, response, color or
\* id is serialized to a payload that is equal apart from the random marker
\* of the blocked-time property id, and the payload carries no attendees and
\* no response status.
C27_UnreadFieldsFrame ==
    /\ cstep = "varied" =>
          WithoutMarker(Get(followup)) = WithoutMarker(Get(payload))
    /\ SerializedMicrosoft =>
          /\ Get(payload).attendees = None
          /\ Get(payload).responseStatus = None

\* an input with attendees, a conference and a blocked-time window, and a
\* second one without attendees and conference: the payloads differ in the
\* marker only
C27_Witness ==
    /\ cstep = "varied"
    /\ codec = "microsoft"
    /\ Get(input).attendees # None
    /\ Get(input).conference # None
    /\ Get(input).title = Some("Standup")
    /\ HasBlockedTime
    /\ Get(followup) # Get(payload)
    /\ Get(payload).subject = Some("Standup")
    /\ \E u \in UUIDs :
          Get(followup)
              = toMicrosoftEvent(WithFrame(Get(input),
                                           [id |-> "evt-2", attendees |-> None,
                                            conference |-> None,
                                            recurrence |-> None,
                                            recurringEventId |-> None,
                                            response |->
                                                Some([status |-> "declined",
                                                      comment |-> None,
                                                      sendUpdate |-> FALSE]),
                                            color |-> Some("#ff0000")]), u)

(***************************************************************************)
(* Claims about input validation (specification SpecValidation)            *)
(***************************************************************************)
\* an input with metadata passed a schema
ValidatedMetadata ==
    /\ vstep = "validated"
    /\ ~IsZodError(Get(validated))
    /\ Get(unvalidated).metadata # None

MetadataIn == Get(Get(unvalidated).metadata)

MetadataOut == Get(Get(validated).metadata)

GoogleSpecificKeys ==
    {"originalRecurrence", "recurringEventId", "private", "shared",
     "conferenceData"}

IsGoogleShaped(metadata) ==
    /\ \E k \in GoogleSpecificKeys : metadata[k] # None
    /\ \A k \in MicrosoftKeys \ {"blockedTime"} : metadata[k] = None

IsMicrosoftShaped(metadata) ==
    \A k \in GoogleSpecificKeys : metadata[k] = None

\* C28: validation preserves provider metadata: the output for Google-shaped
\* metadata holds originalRecurrence, recurringEventId, private, shared and
\* conferenceData with the values of the input, and the output for
\* Microsoft-shaped metadata holds originalStartTimeZone, originalEndTimeZone,
\* onlineMeeting and blockedTime unchanged.
C28_MetadataPreserved ==
    ValidatedMetadata =>
        /\ IsGoogleShaped(MetadataIn) =>
              \A k \in GoogleSpecificKeys : MetadataOut[k] = MetadataIn[k]
        /\ IsMicrosoftShaped(MetadataIn) =>
              \A k \in MicrosoftKeys : MetadataOut[k] = MetadataIn[k]

(***************************************************************************)
(* Claims about the persisted tables (specification SpecTables)            *)
(***************************************************************************)
\* an event row was offered whose calendar and recurrence exist
EventInsertAttempted ==
    /\ statement.verb = "insert"
    /\ statement.table = "event"
    /\ \E c \in calendarRows : c.id = statement.row.calendarId
    /\ statement.row.recurrenceId # None =>
          \E r \in recurrenceRows : Some(r.id) = statement.row.recurrenceId

\* C29: the event table accepts any number of events with distinct ids for
\* one (accountId, calendarId) pair: an insert is rejected only when the id
\* of the new row is the id of a stored row.
C29_ManyEventsPerCalendar ==
    (EventInsertAttempted /\ statement.outcome # "ok") =>
        \E e \in eventRows : e.id = statement.row.id

ReferentialIntegrity ==
    /\ \A a \in attendeeRows : \E e \in eventRows : e.id = a.eventId
    /\ \A e \in eventRows : \E c \in calendarRows : c.id = e.calendarId
    /\ \A e \in eventRows :
          e.recurrenceId # None =>
              \E r \in recurrenceRows : Some(r.id) = e.recurrenceId

\* the step executes the delete of the row id of the table
Deletes(table, id) ==
    /\ statement'.verb = "delete"
    /\ statement'.table = table
    /\ statement'.row.id = id
    /\ \/ statement' # statement
       \/ <<calendarRows, eventRows, recurrenceRows, attendeeRows>>'
             # <<calendarRows, eventRows, recurrenceRows, attendeeRows>>

\* C30: after any sequence of inserts and deletes every attendee row
\* references a stored event, every event row a stored calendar and every
\* non-null recurrenceId a stored recurrence; deleting a calendar deletes
\* its events and their attendees, deleting an event deletes its attendees,
\* and deleting a recurrence sets recurrenceId to null on the events that
\* used it without deleting them.
C30_ReferentialIntegrity ==
    [][/\ ReferentialIntegrity'
       /\ \A c \in CalendarIds :
             Deletes("calendar", c) =>
                 /\ eventRows' = {e \in eventRows : e.calendarId # c}
                 /\ attendeeRows'
                       = {a \in attendeeRows :
                            \E e \in eventRows' : e.id = a.eventId}
                 /\ recurrenceRows' = recurrenceRows
       /\ \A x \in EventIds :
             Deletes("event", x) =>
                 /\ eventRows' = {e \in eventRows : e.id # x}
                 /\ attendeeRows' = {a \in attendeeRows : a.eventId # x}
                 /\ calendarRows' = calendarRows
       /\ \A r \in RecurrenceIds :
             Deletes("recurrence", r) =>
                 /\ {e.id : e \in eventRows'} = {e.id : e \in eventRows}
                 /\ \A e \in eventRows :
                       \/ e.recurrenceId # Some(r) /\ e \in eventRows'
                       \/ /\ e.recurrenceId = Some(r)
                          /\ [e EXCEPT !.recurrenceId = None] \in eventRows'
                 /\ attendeeRows' = attendeeRows]_vars

\* a calendar was deleted together with two events and an attendee, while
\* an attendee row without its event would have remained
C30_Witness ==
    /\ statement.verb = "delete"
    /\ statement.table = "calendar"
    /\ statement.cascaded = 3
    /\ eventRows = {}
    /\ attendeeRows = {}
    /\ recurrenceRows # {}
    /\ ReferentialIntegrity

====
